---- MODULE Spec2Model ----
(***************************************************************************)
(* Model of the multi-provider transcription orchestration layer           *)
(* (transcribeAudio and its three provider adapters), of the mapping of    *)
(* AssemblyAI transcripts, of the batch queue processor of the App         *)
(* component and of the runtime configuration cache.                       *)
(*                                                                         *)
(* Strings whose content the code inspects (credentials, file URIs) are    *)
(* sequences of one-character strings, so that trim() and split('/') are   *)
(* computed.  An optional string is a record [def, s]: def = FALSE is      *)
(* JavaScript's undefined.                                                 *)
(***************************************************************************)
EXTENDS Integers, Sequences, FiniteSets, TLC

VARIABLES
    \* ---- one call of transcribeAudio ----
    tpc,            \* position of the call
    settings,       \* TranscriptionSettings: provider and credentials
    env,            \* environment defaults: VITE_GEMINI_API_KEY, process.env.API_KEY
    fileSize,       \* file.size
    adapter,        \* the adapter that was invoked ("NONE" before dispatch)
    apiKey,         \* the credential the adapter works with
    req,            \* number of HTTP requests issued, per kind of request
    attempt,        \* the polling loops' attempt counter
    lastAnswer,     \* the answer to the latest request ("none" before the first)
    fileUri,        \* Gemini: the uri returned by the byte upload
    raised,         \* the error first thrown inside the call ("" if none)
    err,            \* the error the caller of transcribeAudio receives ("" if none)
    result,         \* the TranscriptionResult returned (NoResult before)
    loaded,         \* e.loaded of the latest upload progress event
    progress,       \* the latest value passed to onProgress (NoProgress before)
    \* ---- Gemini response parsing ----
    ppc,            \* "input" | "parsed"
    ptext,          \* the response text handed to parseGeminiResponse
    pout,           \* what parseGeminiResponse returned
    \* ---- batch processor (App component) ----
    queue,          \* React state: the BatchItem list, all enqueued updaters applied
    bsettings,      \* React state: the settings the batch processor reads
    processCounter, \* React state: the re-evaluation trigger
    dirty,          \* a state update is waiting for a render
    rendered,       \* what the last committed render saw: queue and settings
    effectDue,      \* the last render's effect has not run yet
    isProcessingRef,\* isProcessingRef.current
    jobs,           \* the invocations of processNext that are past their guard
    nextId,         \* number of item ids handed out so far
    picked,         \* history: the item ids processNext selected, in order
    failed,         \* history: the item ids whose processing threw
    \* ---- AssemblyAI response mapping ----
    mpc,            \* position in mapAssemblyResponseToResult
    transcript,     \* the AssemblyTranscriptResponse being mapped
    wordIdx,        \* mapWordsToSegments: the index of the next word
    wstate,         \* mapWordsToSegments: segments, current, fallbackSpeakerIndex
    msegs,          \* the segments selected (Undefined before, or when none)
    mout,           \* what mapAssemblyResponseToResult returned
    wlog,           \* history: the speaker label resolved for each word so far
    \* ---- runtime configuration ----
    cachedConfig,   \* the module's cachedConfig (NoConfig is null)
    metaEnv,        \* import.meta.env
    nodeEnv,        \* process.env
    lastCall,       \* the outcome of the latest call of getRuntimeConfig
    clog,           \* history: for each call of getRuntimeConfig how it ended,
                    \* whether it validated, and the GEMINI_API_KEY then in force
    validations,    \* history: how often envSchema.safeParse has run
    envChanges      \* history: how often process.env has been changed

tvars == <<tpc, settings, env, fileSize, adapter, apiKey, req, attempt, lastAnswer,
           fileUri, raised, err, result, loaded, progress>>
pvars == <<ppc, ptext, pout>>
bvars == <<queue, bsettings, processCounter, dirty, rendered, effectDue,
           isProcessingRef, jobs, nextId, picked, failed>>
mvars == <<mpc, transcript, wordIdx, wstate, msegs, mout, wlog>>
cvars == <<cachedConfig, metaEnv, nodeEnv, lastCall, clog, validations, envChanges>>
vars == <<tvars, pvars, bvars, mvars, cvars>>

----------------------------------------------------------------------------
(* Strings *)

Str(chars) == [def |-> TRUE, s |-> chars]
Undefined == [def |-> FALSE, s |-> <<>>]

IsSpace(c) == c = " "

RECURSIVE TrimLeft(_)
TrimLeft(s) ==
    IF s = <<>> THEN <<>>
    ELSE IF IsSpace(Head(s)) THEN TrimLeft(Tail(s)) ELSE s

RECURSIVE TrimRight(_)
TrimRight(s) ==
    IF s = <<>> THEN <<>>
    ELSE IF IsSpace(s[Len(s)]) THEN TrimRight(SubSeq(s, 1, Len(s) - 1)) ELSE s

\* String.prototype.trim
Trim(s) == TrimRight(TrimLeft(s))

\* JavaScript truthiness of an optional string
Truthy(v) == v.def /\ v.s # <<>>

\* a || b on optional strings
OrElse(a, b) == IF Truthy(a) THEN a ELSE b

\* fileUri.split('/').pop(): the part after the last '/'
RECURSIVE LastSegment(_)
LastSegment(s) ==
    IF s = <<>> THEN <<>>
    ELSE IF s[Len(s)] = "/" THEN <<>>
    ELSE Append(LastSegment(SubSeq(s, 1, Len(s) - 1)), s[Len(s)])

----------------------------------------------------------------------------
(* Gemini response parsing.  A response text is a sequence of lexical      *)
(* tokens: the two Markdown fences, JSON punctuation, two kinds of JSON    *)
(* object ("{seg}" has the start/end/speaker/text fields, "{}" has none),  *)
(* the literals null and 1, whitespace, and "x" for anything that is not   *)
(* JSON.                                                                   *)

MaxTextLen == 4

Tok == {"FENCE_JSON", "FENCE", "[", "]", ",", "{seg}", "{}", "null", "1", "x", " "}

RECURSIVE SeqsUpTo(_, _)
SeqsUpTo(S, n) ==
    IF n = 0 THEN {<<>>}
    ELSE LET shorter == SeqsUpTo(S, n - 1)
         IN  shorter \cup {Append(t, c) : t \in {u \in shorter : Len(u) = n - 1}, c \in S}

Texts == SeqsUpTo(Tok, MaxTextLen)

RECURSIVE Without(_, _)
Without(s, t) ==
    IF s = <<>> THEN <<>>
    ELSE IF Head(s) = t THEN Without(Tail(s), t)
    ELSE <<Head(s)>> \o Without(Tail(s), t)

\* text.replace(/FENCE_JSON/g, '').replace(/FENCE/g, '').trim(), the fences
\* being three backquotes followed by json, and three backquotes
CleanText(text) == Trim(Without(Without(text, "FENCE_JSON"), "FENCE"))

\* A JSON value: t is its type, elems the elements of an array.
JVal(t, elems) == [t |-> t, elems |-> elems]
ParseFail == [ok |-> FALSE, val |-> JVal("none", <<>>), rest |-> <<>>]
ParseOk(v, rest) == [ok |-> TRUE, val |-> v, rest |-> rest]

\* JSON.parse, by recursive descent.  Whitespace between tokens is skipped.
RECURSIVE ParseValue(_)
RECURSIVE ParseElems(_, _)
ParseValue(toks) ==
    LET s == TrimLeft(toks) IN
    IF s = <<>> THEN ParseFail
    ELSE IF Head(s) = "null" THEN ParseOk(JVal("null", <<>>), Tail(s))
    ELSE IF Head(s) = "1" THEN ParseOk(JVal("number", <<>>), Tail(s))
    ELSE IF Head(s) = "{seg}" THEN ParseOk(JVal("segment", <<>>), Tail(s))
    ELSE IF Head(s) = "{}" THEN ParseOk(JVal("object", <<>>), Tail(s))
    ELSE IF Head(s) = "["
         THEN LET r == TrimLeft(Tail(s)) IN
              IF r # <<>> /\ Head(r) = "]"
              THEN ParseOk(JVal("array", <<>>), Tail(r))
              ELSE ParseElems(r, <<>>)
    ELSE ParseFail

ParseElems(toks, acc) ==
    LET v == ParseValue(toks) IN
    IF ~v.ok THEN ParseFail
    ELSE LET r == TrimLeft(v.rest) IN
         IF r = <<>> THEN ParseFail
         ELSE IF Head(r) = "]" THEN ParseOk(JVal("array", Append(acc, v.val)), Tail(r))
         ELSE IF Head(r) = "," THEN ParseElems(Tail(r), Append(acc, v.val))
         ELSE ParseFail

JSONParse(toks) ==
    LET v == ParseValue(toks) IN
    IF v.ok /\ TrimLeft(v.rest) = <<>> THEN v ELSE ParseFail

\* The text of a TranscriptionResult: def = FALSE is undefined; kind tells
\* how it was built ("raw": the response text as received, "lines": one
\* formatted line per parsed element, "flat": a provider's text field,
\* "chars": a text given character by character).
Txt(kind, body) == [def |-> TRUE, kind |-> kind, body |-> body]
NoTxt == [def |-> FALSE, kind |-> "none", body |-> <<>>]

Res(text, hasSegments, segments, provider) ==
    [ret |-> TRUE, text |-> text, hasSegments |-> hasSegments,
     segments |-> segments, providerUsed |-> provider]
NoResult ==
    [ret |-> FALSE, text |-> NoTxt, hasSegments |-> FALSE,
     segments |-> <<>>, providerUsed |-> "NONE"]

\* The line [formatTimestamp(s.start)] [s.speaker] s.text: reading the fields
\* of null throws; every other element yields a line (of NaN and undefined
\* when the element has no such fields).
LineThrows(e) == e.t = "null"
LineOf(e) == IF e.t = "segment" THEN "[m:ss] [speaker] text" ELSE "[NaN:NaN] [undefined] undefined"

\* Does the try block of parseGeminiResponse throw?
ParseBlockThrows(text) ==
    LET p == JSONParse(CleanText(text)) IN
    \/ ~p.ok
    \/ p.val.t # "array"
    \/ \E i \in 1..Len(p.val.elems) : LineThrows(p.val.elems[i])

parseGeminiResponse(text) ==
    IF ParseBlockThrows(text)
    THEN Res(Txt("raw", text), FALSE, <<>>, "GEMINI")
    ELSE LET segments == JSONParse(CleanText(text)).val.elems IN
         Res(Txt("lines", [i \in 1..Len(segments) |-> LineOf(segments[i])]),
             TRUE, segments, "GEMINI")

ParseInit ==
    /\ ppc = "input"
    /\ ptext \in Texts
    /\ pout = NoResult

\* no parse is under way
ParseOff ==
    /\ ppc = "off"
    /\ ptext = <<>>
    /\ pout = NoResult

\* a call of parseGeminiResponse on the given text
ParseResponse ==
    /\ ppc = "input"
    /\ UNCHANGED <<tvars, bvars, mvars, cvars>>
    /\ ppc' = "parsed"
    /\ pout' = parseGeminiResponse(ptext)
    /\ UNCHANGED ptext

----------------------------------------------------------------------------
(* AssemblyAI response mapping: mapAssemblyResponseToResult,               *)
(* mapWordsToSegments and formatSpeakerLabel.  Texts and speaker values    *)
(* are sequences of one-character strings; a numeric speaker value is its  *)
(* decimal string, which is what the template literal makes of it.  A      *)
(* time in seconds is the binary64 number that the division of a whole     *)
(* number of milliseconds by 1000 yields.                                  *)

\* ---- JavaScript numbers ----

RECURSIVE ExponentUp(_, _, _)
ExponentUp(n, d, f) == IF d * 2^(f + 1) <= n THEN ExponentUp(n, d, f + 1) ELSE f

RECURSIVE ExponentDown(_, _, _)
ExponentDown(n, d, g) == IF d <= n * 2^g THEN g ELSE ExponentDown(n, d, g + 1)

\* the binary exponent of n / d: the largest f with 2^f <= n / d (n, d > 0)
Exponent(n, d) == IF d <= n THEN ExponentUp(n, d, 0) ELSE 0 - ExponentDown(n, d, 1)

RECURSIVE PowMod(_, _, _)
PowMod(b, k, m) == IF k = 0 THEN 1 % m ELSE (b * PowMod(b, k - 1, m)) % m

\* n / d on whole numbers n >= 0, d > 0: the binary64 number nearest to the
\* quotient.  Its significand has 53 bits, so it is q / 2^scale with
\* 2^52 <= q < 2^53 and q the whole number nearest to n * 2^scale / d; the
\* record gives it as (n * 2^scale - err) / (d * 2^scale), where err is the
\* remainder of that rounding, obtained modulo d.  (For d = 1000 no tie
\* arises, 8 dividing n * 2^scale.)
JsDivide(n, d) ==
    IF n = 0 THEN [num |-> 0, den |-> d, err |-> 0, scale |-> 0]
    ELSE LET k == 52 - Exponent(n, d)
             rp == ((n % d) * PowMod(2, k, d)) % d
         IN [num |-> n, den |-> d, err |-> IF 2 * rp <= d THEN rp ELSE rp - d,
             scale |-> k]

\* mutation: milliseconds are divided by 100
MsToSecondsBy100(ms) == JsDivide(ms, 100)

\* utterance.start / 1000, word.end / 1000, ...
MsToSeconds(ms) == JsDivide(ms, 1000)

\* ---- strings ----

UpperCaseLetters ==
    <<"A", "B", "C", "D", "E", "F", "G", "H", "I", "J", "K", "L", "M", "N",
      "O", "P", "Q", "R", "S", "T", "U", "V", "W", "X", "Y", "Z">>
LowerCaseLetters ==
    <<"a", "b", "c", "d", "e", "f", "g", "h", "i", "j", "k", "l", "m", "n",
      "o", "p", "q", "r", "s", "t", "u", "v", "w", "x", "y", "z">>

ToLowerCaseChar(c) ==
    IF \E i \in 1..26 : UpperCaseLetters[i] = c
    THEN LowerCaseLetters[CHOOSE i \in 1..26 : UpperCaseLetters[i] = c]
    ELSE c

\* String.prototype.toLowerCase
ToLowerCase(s) == [i \in 1..Len(s) |-> ToLowerCaseChar(s[i])]

DigitChars == <<"0", "1", "2", "3", "4", "5", "6", "7", "8", "9">>

\* the decimal string of a whole number, as a template literal renders it
RECURSIVE Decimal(_)
Decimal(n) ==
    IF n < 10 THEN <<DigitChars[n + 1]>>
    ELSE Decimal(n \div 10) \o <<DigitChars[(n % 10) + 1]>>

\* "Speaker "
SpeakerPrefix == <<"S", "p", "e", "a", "k", "e", "r", " ">>

\* "assemblyai support pending update to json schema"
PlaceholderText ==
    <<"a", "s", "s", "e", "m", "b", "l", "y", "a", "i", " ", "s", "u", "p",
      "p", "o", "r", "t", " ", "p", "e", "n", "d", "i", "n", "g", " ", "u",
      "p", "d", "a", "t", "e", " ", "t", "o", " ", "j", "s", "o", "n", " ",
      "s", "c", "h", "e", "m", "a">>

\* the placeholder as the test suite spells it
PlaceholderMixedCase ==
    <<"A", "s", "s", "e", "m", "b", "l", "y", "A", "I", " ", "S", "u", "p",
      "p", "o", "r", "t", " ", "p", "e", "n", "d", "i", "n", "g", " ", "u",
      "p", "d", "a", "t", "e", " ", "t", "o", " ", "J", "S", "O", "N", " ",
      "s", "c", "h", "e", "m", "a">>

\* ---- the mapping ----

Segment(start, end, speaker, text) ==
    [start |-> start, end |-> end, speaker |-> speaker, text |-> text]

\* speaker === undefined || speaker === null ||
\* the speaker as a string, trimmed, is empty
SpeakerMissing(speaker) == ~speaker.def \/ Len(Trim(speaker.s)) = 0

formatSpeakerLabel(speaker, fallbackIndex) ==
    IF SpeakerMissing(speaker)
    THEN SpeakerPrefix \o Decimal(fallbackIndex)
    ELSE SpeakerPrefix \o speaker.s

\* current of mapWordsToSegments: null, or the segment being built
NoSegment == [def |-> FALSE, seg |-> Segment(JsDivide(0, 1), JsDivide(0, 1), <<>>, <<>>)]
Current(seg) == [def |-> TRUE, seg |-> seg]

\* current?.speaker is truthy
HasCurrentSpeaker(cur) == cur.def /\ cur.seg.speaker # <<>>

\* mutation: a word without speaker never takes the current segment's label
WordSpeakerLabelAlwaysFallback(word, cur, fallbackIndex) ==
    formatSpeakerLabel(word.speaker, fallbackIndex)

\* speakerLabel of one iteration of words.forEach
WordSpeakerLabel(word, cur, fallbackIndex) ==
    IF SpeakerMissing(word.speaker)
    THEN IF HasCurrentSpeaker(cur) THEN cur.seg.speaker
         ELSE SpeakerPrefix \o Decimal(fallbackIndex)
    ELSE formatSpeakerLabel(word.speaker, fallbackIndex)

\* fallbackSpeakerIndex after the iteration: fallbackSpeakerIndex++ is
\* evaluated when the word has no speaker and current has none to offer
NextFallbackIndex(word, cur, fallbackIndex) ==
    IF SpeakerMissing(word.speaker) /\ ~HasCurrentSpeaker(cur)
    THEN fallbackIndex + 1
    ELSE fallbackIndex

\* mutation: the raw word text is preferred to punctuated_word
TokenRawFirst(word) ==
    IF Trim(word.text) # <<>> THEN Trim(word.text)
    ELSE IF word.punctuated_word.def THEN Trim(word.punctuated_word.s) ELSE <<>>

\* word.punctuated_word?.trim() || word.text.trim()
Token(word) ==
    IF word.punctuated_word.def /\ Trim(word.punctuated_word.s) # <<>>
    THEN Trim(word.punctuated_word.s)
    ELSE Trim(word.text)

\* the locals of mapWordsToSegments before the first word
InitialWordState ==
    [segments |-> <<>>, current |-> NoSegment, fallbackSpeakerIndex |-> 1]

\* one iteration of words.forEach
WordStep(st, word) ==
    LET speakerLabel == WordSpeakerLabel(word, st.current, st.fallbackSpeakerIndex)
        fallback == NextFallbackIndex(word, st.current, st.fallbackSpeakerIndex)
        token == Token(word)
    IN IF token = <<>>
       THEN [st EXCEPT !.fallbackSpeakerIndex = fallback]
       ELSE IF st.current.def /\ st.current.seg.speaker = speakerLabel
       THEN [segments |-> st.segments,
             current |-> Current(Segment(st.current.seg.start,
                                         MsToSeconds(word.end),
                                         st.current.seg.speaker,
                                         Trim(st.current.seg.text \o <<" ">> \o token))),
             fallbackSpeakerIndex |-> fallback]
       ELSE [segments |-> IF st.current.def
                          THEN Append(st.segments, st.current.seg)
                          ELSE st.segments,
             current |-> Current(Segment(MsToSeconds(word.start),
                                         MsToSeconds(word.end),
                                         speakerLabel, token)),
             fallbackSpeakerIndex |-> fallback]

\* if (current) segments.push(current); return segments
WordsReturn(st) ==
    IF st.current.def THEN Append(st.segments, st.current.seg) ELSE st.segments

RECURSIVE WordsFold(_, _)
WordsFold(st, words) ==
    IF words = <<>> THEN st
    ELSE WordsFold(WordStep(st, Head(words)), Tail(words))

\* an optional list is a record [def, s] like an optional string
mapWordsToSegments(words) ==
    IF ~words.def \/ words.s = <<>> THEN Undefined
    ELSE Str(WordsReturn(WordsFold(InitialWordState, words.s)))

\* mutation: the utterances are mapped last to first
SegmentsFromUtterancesReversed(utterances) ==
    IF ~utterances.def THEN Undefined
    ELSE Str([i \in 1..Len(utterances.s) |->
                LET u == utterances.s[(Len(utterances.s) + 1) - i]
                IN Segment(MsToSeconds(u.start), MsToSeconds(u.end),
                           formatSpeakerLabel(u.speaker, i), u.text)])

\* transcript.utterances?.map(...)
SegmentsFromUtterances(utterances) ==
    IF ~utterances.def THEN Undefined
    ELSE Str([i \in 1..Len(utterances.s) |->
                Segment(MsToSeconds(utterances.s[i].start),
                        MsToSeconds(utterances.s[i].end),
                        formatSpeakerLabel(utterances.s[i].speaker, i),
                        utterances.s[i].text)])

\* mutation: the utterances are never used
UseUtterancesNever(fromUtterances) == FALSE

\* segmentsFromUtterances && segmentsFromUtterances.length > 0
UseUtterances(fromUtterances) == fromUtterances.def /\ Len(fromUtterances.s) > 0

\* const segments = (... ? segmentsFromUtterances : undefined) || mapWordsToSegments(...)
SelectSegments(t) ==
    IF UseUtterances(SegmentsFromUtterances(t.utterances))
    THEN SegmentsFromUtterances(t.utterances)
    ELSE mapWordsToSegments(t.words)

\* segments.map((s) => s.text).join(" ")
RECURSIVE JoinTexts(_)
JoinTexts(segments) ==
    IF segments = <<>> THEN <<>>
    ELSE IF Len(segments) = 1 THEN segments[1].text
    ELSE segments[1].text \o <<" ">> \o JoinTexts(Tail(segments))

\* segments?.map((s) => s.text).join(" ").trim()
CombinedTextFromSegments(segments) ==
    IF segments.def THEN Str(Trim(JoinTexts(segments.s))) ELSE Undefined

\* mutation: the comparison is case-sensitive
isPlaceholderCaseSensitive(text) ==
    Truthy(text) /\ Trim(text.s) = PlaceholderText

isPlaceholderTranscriptText(text) ==
    Truthy(text) /\ ToLowerCase(Trim(text.s)) = PlaceholderText

\* mutation: the provider's flat text is preferred to the segments' text
ResolvedTextFlatFirst(combined, text) ==
    IF Truthy(text) THEN text.s
    ELSE IF Truthy(combined) THEN combined.s ELSE <<>>

\* resolvedText
ResolvedText(combined, text) ==
    IF Truthy(combined) THEN combined.s
    ELSE IF ~isPlaceholderTranscriptText(text) /\ Truthy(text) THEN text.s
    ELSE <<>>

\* the object returned, given the segments selected
AssemblyResult(t, segments) ==
    Res(Txt("chars", ResolvedText(CombinedTextFromSegments(segments), t.text)),
        segments.def /\ Len(segments.s) > 0,
        IF segments.def THEN segments.s ELSE <<>>,
        "ASSEMBLYAI")

mapAssemblyResponseToResult(t) == AssemblyResult(t, SelectSegments(t))

\* ---- the transcripts mapped ----

MaxUtterances == 2
MaxWords == 2

\* start and end in milliseconds
TimeSpans == {<<0, 1001>>, <<1200, 2400>>}

UtteranceSpeakers == {Undefined, Str(<<" ">>), Str(<<"A">>)}
UtteranceTexts == {<<>>, <<"a">>, <<" ", "b">>}
Utterances ==
    {[start |-> span[1], end |-> span[2], speaker |-> speaker, text |-> text] :
        span \in TimeSpans, speaker \in UtteranceSpeakers, text \in UtteranceTexts}

WordSpeakers == {Undefined, Str(<<" ">>), Str(<<"2">>)}
\* text and punctuated_word of a word: a blank word, a word without
\* punctuated_word, and a blank and a non-blank punctuated_word beside a
\* non-blank text
WordContents ==
    {<<<<" ">>, Undefined>>, <<<<"a", " ">>, Undefined>>,
     <<<<"a", " ">>, Str(<<" ">>)>>, <<<<"a", " ">>, Str(<<" ", "b", ".">>)>>}
Words ==
    {[start |-> span[1], end |-> span[2], speaker |-> speaker, text |-> c[1],
      punctuated_word |-> c[2]] :
        span \in TimeSpans, speaker \in WordSpeakers, c \in WordContents}

\* an optional list of at most n items of S
ListsUpTo(S, n) == {Undefined} \cup {Str(l) : l \in SeqsUpTo(S, n)}

FlatTexts ==
    {Undefined, Str(<<>>), Str(<<"h", "i">>), Str(PlaceholderText),
     Str(PlaceholderMixedCase), Str(<<" ">> \o PlaceholderMixedCase \o <<" ">>),
     Str(PlaceholderText \o <<"x">>)}

SampleWord ==
    [start |-> 0, end |-> 1001, speaker |-> Str(<<"2">>), text |-> <<"a", " ">>,
     punctuated_word |-> Undefined]
BlankWord ==
    [start |-> 0, end |-> 1001, speaker |-> Undefined, text |-> <<" ">>,
     punctuated_word |-> Undefined]

\* every utterance list with some word lists and flat texts, every word
\* list without utterances and with a flat text, and every flat text with
\* some lists, among them lists that yield no segment
MapInputs ==
    [utterances : ListsUpTo(Utterances, MaxUtterances),
     words : {Undefined, Str(<<SampleWord>>)},
     text : {Undefined, Str(<<"h", "i">>), Str(PlaceholderMixedCase)}]
    \cup
    [utterances : {Undefined},
     words : ListsUpTo(Words, MaxWords),
     text : {Str(<<"h", "i">>)}]
    \cup
    [utterances : {Undefined, Str(<<>>)},
     words : {Undefined, Str(<<>>), Str(<<BlankWord>>), Str(<<SampleWord>>)},
     text : FlatTexts]

\* the completed transcripts that the status endpoint answers with
StatusTranscripts ==
    {[utterances |-> Undefined, words |-> Undefined, text |-> Str(<<"h", "i">>)],
     [utterances |-> Str(<<>>), words |-> Str(<<>>), text |-> Str(PlaceholderMixedCase)],
     [utterances |-> Str(<<[start |-> 1200, end |-> 2400, speaker |-> Str(<<"A">>),
                            text |-> <<"a">>]>>),
      words |-> Undefined, text |-> Str(<<"h", "i">>)],
     [utterances |-> Undefined, words |-> Str(<<SampleWord, BlankWord>>),
      text |-> Undefined]}

\* return mapAssemblyResponseToResult(transcript), for each of them
CompletedResults == {mapAssemblyResponseToResult(t) : t \in StatusTranscripts}

MapInit ==
    /\ mpc = "call"
    /\ transcript \in MapInputs
    /\ wordIdx = 0
    /\ wstate = InitialWordState
    /\ msegs = Undefined
    /\ mout = NoResult
    /\ wlog = <<>>

\* no mapping is under way
MapOff ==
    /\ mpc = "off"
    /\ transcript = [utterances |-> Undefined, words |-> Undefined, text |-> Undefined]
    /\ wordIdx = 0
    /\ wstate = InitialWordState
    /\ msegs = Undefined
    /\ mout = NoResult
    /\ wlog = <<>>

\* from the call to the choice of the source of the segments, including
\* the guard of mapWordsToSegments
MapSelect ==
    /\ mpc = "call"
    /\ UNCHANGED <<tvars, pvars, bvars, cvars>>
    /\ UNCHANGED <<transcript, wstate, mout, wlog>>
    /\ IF UseUtterances(SegmentsFromUtterances(transcript.utterances))
       THEN /\ msegs' = SegmentsFromUtterances(transcript.utterances)
            /\ mpc' = "resolve"
            /\ UNCHANGED wordIdx
       ELSE IF ~transcript.words.def \/ transcript.words.s = <<>>
       THEN /\ msegs' = Undefined
            /\ mpc' = "resolve"
            /\ UNCHANGED wordIdx
       ELSE /\ mpc' = "words"
            /\ wordIdx' = 1
            /\ UNCHANGED msegs

\* one iteration of words.forEach
MapWord ==
    /\ mpc = "words"
    /\ wordIdx <= Len(transcript.words.s)
    /\ UNCHANGED <<tvars, pvars, bvars, cvars>>
    /\ UNCHANGED <<mpc, transcript, msegs, mout>>
    /\ wstate' = WordStep(wstate, transcript.words.s[wordIdx])
    /\ wlog' = Append(wlog, WordSpeakerLabel(transcript.words.s[wordIdx],
                                             wstate.current,
                                             wstate.fallbackSpeakerIndex))
    /\ wordIdx' = wordIdx + 1

\* the end of mapWordsToSegments
MapWordsReturn ==
    /\ mpc = "words"
    /\ wordIdx > Len(transcript.words.s)
    /\ UNCHANGED <<tvars, pvars, bvars, cvars>>
    /\ UNCHANGED <<transcript, wordIdx, wstate, mout, wlog>>
    /\ msegs' = Str(WordsReturn(wstate))
    /\ mpc' = "resolve"

\* combinedTextFromSegments, resolvedText and the return statement
MapResolve ==
    /\ mpc = "resolve"
    /\ UNCHANGED <<tvars, pvars, bvars, cvars>>
    /\ UNCHANGED <<transcript, wordIdx, wstate, msegs, wlog>>
    /\ mout' = AssemblyResult(transcript, msegs)
    /\ mpc' = "done"

MapNext ==
    \/ MapSelect
    \/ MapWord
    \/ MapWordsReturn
    \/ MapResolve

----------------------------------------------------------------------------
(* transcribeAudio and the provider adapters *)

\* error messages, as thrown
ErrOpenAIKeyRequired == "OpenAI API key is missing. Open Settings and add it first."
ErrAssemblyKeyRequired == "AssemblyAI API key is missing. Open Settings and add it first."
ErrOpenAIKeyMissing == "OpenAI API Key is missing."
ErrAssemblyKeyMissing == "AssemblyAI API Key is missing."
ErrGeminiKey == "Missing Gemini API Key. Add it in Settings."
ErrOpenAI == "OpenAI Error"
ErrFetch == "Failed to fetch"
ErrBase64 == "Failed to convert file to base64"
ErrGenerate == "generateContent failed"
ErrUploadStart == "Failed to initiate large file upload."
ErrUploadParse == "Failed to parse upload response"
ErrUploadStatus == "Upload failed with status 500"
ErrUploadNetwork == "Network Error during upload"
ErrUriType == "TypeError: fileUri is undefined"
ErrFileStatus == "Failed to check file status"
ErrFileFailed == "File processing failed on Google servers."
ErrFileTimeout == "File processing timed out. The file might be too large or the service is busy."
ErrLargeFile == "File processing failed. Please try a shorter clip or check your connection."
ErrAaiUpload == "Failed to upload audio to AssemblyAI."
ErrAaiUploadUrl == "AssemblyAI upload URL missing in response."
ErrAaiSubmit == "Failed to start AssemblyAI transcription."
ErrAaiId == "AssemblyAI did not return a transcript ID."
ErrAaiPoll == "Failed to poll AssemblyAI transcript status."
ErrAaiProvider == "provider error text"
ErrAaiFailed == "AssemblyAI transcription failed."
ErrAaiTimeout == "AssemblyAI transcription timed out. Please try again with a shorter clip."

LARGE_FILE_THRESHOLD == 10 * 1024 * 1024
GeminiMaxAttempts == 120
AssemblyMaxAttempts == 120

\* the inputs of a call
Providers == {"GEMINI", "OPENAI", "ASSEMBLYAI", "WATSON"}
KeyValues == {Undefined, Str(<<>>), Str(<<" ">>), Str(<<" ", "k">>)}
EnvValues == {Undefined, Str(<<" ">>), Str(<<"e">>)}
FileSizes == {5 * 1024 * 1024, LARGE_FILE_THRESHOLD, LARGE_FILE_THRESHOLD + 1}
FileUris == {Undefined, Str(<<>>), Str(<<"f", "/">>), Str(<<"f", "/", "a">>)}
GenTexts == {<<>>, <<"x">>, <<"[", "{seg}", "]">>, <<"FENCE_JSON", "[", "{}", "]", "FENCE">>}

ReqKinds == {"gemUploadStart", "gemUploadBytes", "gemFileStatus", "gemGenerateInline",
             "gemGenerateFile", "openai", "aaiUpload", "aaiSubmit", "aaiStatus"}

Issue(kind) == [req EXCEPT ![kind] = @ + 1]

\* requireKey: is the key rejected, and what it returns otherwise
RequireKeyThrows(key) == ~Truthy(key) \/ Len(Trim(key.s)) = 0
RequireKeyValue(key) == Str(Trim(key.s))

\* settings.geminiApiKey?.trim() || import.meta.env.VITE_GEMINI_API_KEY || process.env.API_KEY
ResolveGeminiKey(st, e) ==
    OrElse(OrElse(IF st.geminiApiKey.def THEN Str(Trim(st.geminiApiKey.s)) ELSE Undefined,
                  e.vite),
           e.process)

\* mutation: the default branch of the switch calls the OpenAI adapter
AdapterForDefaultOpenAI(provider) ==
    CASE provider = "GEMINI" -> "GEMINI"
      [] provider = "ASSEMBLYAI" -> "ASSEMBLYAI"
      [] OTHER -> "OPENAI"

\* the switch of transcribeAudio: the adapter a provider value selects
AdapterFor(provider) ==
    CASE provider = "OPENAI" -> "OPENAI"
      [] provider = "ASSEMBLYAI" -> "ASSEMBLYAI"
      [] OTHER -> "GEMINI"

\* file.size > LARGE_FILE_THRESHOLD
IsLargeFile(size) == size > LARGE_FILE_THRESHOLD

\* the catch block around the large-file path of transcribeWithGemini
LargeFileCatch(e) == ErrLargeFile

\* onProgress has not been called
NoProgress == -1

\* Math.round(num / den) for num >= 0, den > 0
MathRound(num, den) == (2 * num + den) \div (2 * den)

\* Math.round((e.loaded / e.total) * 100)
UploadPercent(ld, total) == MathRound(100 * ld, total)

\* Math.min(99, Math.round((attempt / maxAttempts) * 100))
AssemblyPercent(a) ==
    IF MathRound(100 * a, AssemblyMaxAttempts) < 99
    THEN MathRound(100 * a, AssemblyMaxAttempts) ELSE 99

\* e.loaded of an upload progress event of a body of total bytes
LoadedValues(total) == {0, total \div 400, total \div 2, total}

\* mutation: a FAILED file is polled again
GeminiStatusOutcomeRepollFailed(state) ==
    IF state = "ACTIVE" THEN "return" ELSE "retry"

\* what waitForFileActive does with fileData.state
GeminiStatusOutcome(state) ==
    CASE state = "ACTIVE" -> "return"
      [] state = "FAILED" -> "throw"
      [] OTHER -> "retry"

\* what the AssemblyAI loop does with transcript.status
AssemblyStatusOutcome(status) ==
    CASE status = "completed" -> "return"
      [] status = "error" -> "throw"
      [] OTHER -> "retry"

\* transcript.status of an answer of the status endpoint
AnswerStatus(answer) == IF answer = "errorNoText" THEN "error" ELSE answer

\* mutation: the AssemblyAI loop runs once more
AssemblyLoopCondOffByOne(a) == a <= AssemblyMaxAttempts

\* the conditions of the two polling loops
GeminiLoopCond(a) == a < GeminiMaxAttempts
AssemblyLoopCond(a) == a < AssemblyMaxAttempts

TInit ==
    /\ tpc = "call"
    /\ settings \in [provider : Providers, openaiKey : KeyValues,
                     assemblyAiKey : KeyValues, geminiApiKey : KeyValues]
    /\ env \in [vite : EnvValues, process : EnvValues]
    /\ fileSize \in FileSizes
    /\ adapter = "NONE"
    /\ apiKey = Undefined
    /\ req = [k \in ReqKinds |-> 0]
    /\ attempt = 0
    /\ lastAnswer = "none"
    /\ fileUri = Undefined
    /\ raised = ""
    /\ err = ""
    /\ result = NoResult
    /\ loaded = 0
    /\ progress = NoProgress

\* no call is under way
TOff ==
    /\ tpc = "off"
    /\ settings = [provider |-> "GEMINI", openaiKey |-> Undefined,
                   assemblyAiKey |-> Undefined, geminiApiKey |-> Undefined]
    /\ env = [vite |-> Undefined, process |-> Undefined]
    /\ fileSize = 0
    /\ adapter = "NONE"
    /\ apiKey = Undefined
    /\ req = [k \in ReqKinds |-> 0]
    /\ attempt = 0
    /\ lastAnswer = "none"
    /\ fileUri = Undefined
    /\ raised = ""
    /\ err = ""
    /\ result = NoResult
    /\ loaded = 0
    /\ progress = NoProgress

\* the call ends by throwing e to the caller of transcribeAudio
Throw(e) ==
    /\ tpc' = "failed"
    /\ raised' = e
    /\ err' = e
    /\ UNCHANGED result

\* an error thrown inside the try block of the large-file path
ThrowInLargePath(e) ==
    /\ tpc' = "failed"
    /\ raised' = e
    /\ err' = LargeFileCatch(e)
    /\ UNCHANGED result

Return(r) ==
    /\ tpc' = "done"
    /\ result' = r
    /\ UNCHANGED <<raised, err>>

Goto(pc) ==
    /\ tpc' = pc
    /\ UNCHANGED <<raised, err, result>>

\* transcribeAudio up to the first request: the key checks and the dispatch
TranscribeAudio ==
    /\ tpc = "call"
    /\ UNCHANGED <<pvars, bvars, mvars, cvars>>
    /\ UNCHANGED <<settings, env, fileSize, req, attempt, lastAnswer, fileUri>>
    /\ UNCHANGED loaded
    /\ CASE AdapterFor(settings.provider) = "OPENAI" ->
              IF RequireKeyThrows(settings.openaiKey)
              THEN Throw(ErrOpenAIKeyRequired) /\ UNCHANGED <<adapter, apiKey, progress>>
              ELSE /\ adapter' = "OPENAI"
                   /\ UNCHANGED progress
                   /\ apiKey' = RequireKeyValue(settings.openaiKey)
                   /\ IF ~Truthy(RequireKeyValue(settings.openaiKey))
                      THEN Throw(ErrOpenAIKeyMissing)
                      ELSE Goto("openai")
         [] AdapterFor(settings.provider) = "ASSEMBLYAI" ->
              IF RequireKeyThrows(settings.assemblyAiKey)
              THEN Throw(ErrAssemblyKeyRequired) /\ UNCHANGED <<adapter, apiKey, progress>>
              ELSE /\ adapter' = "ASSEMBLYAI"
                   /\ UNCHANGED progress
                   /\ apiKey' = RequireKeyValue(settings.assemblyAiKey)
                   /\ IF ~Truthy(RequireKeyValue(settings.assemblyAiKey))
                      THEN Throw(ErrAssemblyKeyMissing)
                      ELSE Goto("aaiUpload")
         [] OTHER ->
              /\ adapter' = "GEMINI"
              /\ apiKey' = ResolveGeminiKey(settings, env)
              /\ IF ~Truthy(ResolveGeminiKey(settings, env))
                 THEN Throw(ErrGeminiKey) /\ UNCHANGED progress
                 ELSE IF IsLargeFile(fileSize)
                      THEN Goto("gemUploadStart") /\ progress' = 1
                      ELSE Goto("gemEncode") /\ UNCHANGED progress

\* ---- OpenAI adapter ----

\* the transcription request and its answer
OpenAIRequest ==
    /\ tpc = "openai"
    /\ UNCHANGED <<pvars, bvars, mvars, cvars>>
    /\ req' = Issue("openai")
    /\ UNCHANGED <<settings, env, fileSize, adapter, apiKey, attempt, fileUri>>
    /\ UNCHANGED <<loaded, progress>>
    /\ \E answer \in {"network", "notOk", "text", "noText"} :
         /\ lastAnswer' = answer
         /\ CASE answer = "network" -> Throw(ErrFetch)
           [] answer = "notOk" -> Throw(ErrOpenAI)
           [] answer = "text" -> Return(Res(Txt("flat", <<"t">>), FALSE, <<>>, "OPENAI"))
           [] answer = "noText" -> Return(Res(NoTxt, FALSE, <<>>, "OPENAI"))

\* ---- Gemini adapter, small file ----

\* fileToBase64(file)
GeminiEncode ==
    /\ tpc = "gemEncode"
    /\ UNCHANGED <<pvars, bvars, mvars, cvars>>
    /\ UNCHANGED <<settings, env, fileSize, adapter, apiKey, req, attempt, fileUri>>
    /\ UNCHANGED <<loaded, progress>>
    /\ UNCHANGED lastAnswer
    /\ \E ok \in BOOLEAN :
         IF ok THEN Goto("gemGenerateInline") ELSE Throw(ErrBase64)

\* rawResponseText = response.text || "[]"
RawResponseText(text) == IF text = <<>> THEN <<"[", "]">> ELSE text

\* ai.models.generateContent with inlineData, then parseGeminiResponse
GeminiGenerateInline ==
    /\ tpc = "gemGenerateInline"
    /\ UNCHANGED <<pvars, bvars, mvars, cvars>>
    /\ req' = Issue("gemGenerateInline")
    /\ UNCHANGED <<settings, env, fileSize, adapter, apiKey, attempt, fileUri>>
    /\ UNCHANGED <<loaded, progress>>
    /\ \/ lastAnswer' = "apiError" /\ Throw(ErrGenerate)
       \/ /\ lastAnswer' = "text"
          /\ \E text \in GenTexts : Return(parseGeminiResponse(RawResponseText(text)))

\* ---- Gemini adapter, large file ----

\* the resumable-upload start request; the upload URL comes in a header,
\* and the status of the response is not looked at ("notOkUrl" is a
\* response that is not OK and carries the header, "noUrl" any response
\* without it)
GeminiUploadStart ==
    /\ tpc = "gemUploadStart"
    /\ UNCHANGED <<pvars, bvars, mvars, cvars>>
    /\ req' = Issue("gemUploadStart")
    /\ UNCHANGED <<settings, env, fileSize, adapter, apiKey, attempt, fileUri>>
    /\ UNCHANGED <<loaded, progress>>
    /\ \E answer \in {"network", "noUrl", "notOkUrl", "url"} :
         /\ lastAnswer' = answer
         /\ CASE answer = "network" -> ThrowInLargePath(ErrFetch)
           [] answer = "noUrl" -> ThrowInLargePath(ErrUploadStart)
           [] answer \in {"notOkUrl", "url"} -> Goto("gemUploadBytes")

\* waitForFileActive up to its first request: fileUri.split('/').pop()
\* throws on undefined, an empty file id returns at once
WaitEntry(uri) ==
    IF ~uri.def THEN ThrowInLargePath(ErrUriType)
    ELSE IF LastSegment(uri.s) = <<>> THEN Goto("gemGenerateFile")
    ELSE IF GeminiLoopCond(0) THEN Goto("gemFileStatus")
    ELSE ThrowInLargePath(ErrFileTimeout)

\* xhr.upload.onprogress: a progress event of the byte upload in flight
GeminiUploadProgress ==
    /\ tpc = "gemUploadBytes"
    /\ UNCHANGED <<pvars, bvars, mvars, cvars>>
    /\ UNCHANGED <<tpc, settings, env, fileSize, adapter, apiKey, req, attempt,
                   lastAnswer, fileUri, raised, err, result>>
    /\ \E ld \in LoadedValues(fileSize), lengthComputable \in BOOLEAN :
         /\ ld >= loaded
         /\ loaded' = ld
         /\ progress' = IF lengthComputable
                        THEN UploadPercent(ld, fileSize)
                        ELSE progress

\* the XMLHttpRequest sending the bytes, up to its outcome; on success
\* onProgress(100) and waitForFileActive follow
GeminiUploadBytes ==
    /\ tpc = "gemUploadBytes"
    /\ UNCHANGED <<pvars, bvars, mvars, cvars>>
    /\ req' = Issue("gemUploadBytes")
    /\ attempt' = 0
    /\ UNCHANGED <<settings, env, fileSize, adapter, apiKey>>
    /\ loaded' = 0
    /\ \/ /\ \E e \in {ErrUploadNetwork, ErrUploadStatus, ErrUploadParse} :
                ThrowInLargePath(e)
          /\ lastAnswer' = "uploadError"
          /\ UNCHANGED <<fileUri, progress>>
       \/ \E uri \in FileUris :
            /\ lastAnswer' = "uri"
            /\ fileUri' = uri
            /\ progress' = 100
            /\ WaitEntry(uri)

\* one iteration of the loop of waitForFileActive
GeminiFileStatus ==
    /\ tpc = "gemFileStatus"
    /\ UNCHANGED <<pvars, bvars, mvars, cvars>>
    /\ req' = Issue("gemFileStatus")
    /\ UNCHANGED <<settings, env, fileSize, adapter, apiKey, fileUri>>
    /\ UNCHANGED <<loaded, progress>>
    /\ \E answer \in {"network", "notOk", "ACTIVE", "FAILED", "PROCESSING"} :
         /\ lastAnswer' = answer
         /\ CASE answer = "network" -> ThrowInLargePath(ErrFetch) /\ UNCHANGED attempt
           [] answer = "notOk" -> ThrowInLargePath(ErrFileStatus) /\ UNCHANGED attempt
           [] answer \notin {"network", "notOk"}
                /\ GeminiStatusOutcome(answer) = "return" ->
                Goto("gemGenerateFile") /\ UNCHANGED attempt
           [] answer \notin {"network", "notOk"}
                /\ GeminiStatusOutcome(answer) = "throw" ->
                ThrowInLargePath(ErrFileFailed) /\ UNCHANGED attempt
           [] OTHER ->
                /\ attempt' = attempt + 1
                /\ IF GeminiLoopCond(attempt + 1)
                   THEN Goto("gemFileStatus")
                   ELSE ThrowInLargePath(ErrFileTimeout)

\* ai.models.generateContent with fileData, then parseGeminiResponse
GeminiGenerateFile ==
    /\ tpc = "gemGenerateFile"
    /\ UNCHANGED <<pvars, bvars, mvars, cvars>>
    /\ req' = Issue("gemGenerateFile")
    /\ UNCHANGED <<settings, env, fileSize, adapter, apiKey, attempt, fileUri>>
    /\ UNCHANGED <<loaded, progress>>
    /\ \/ lastAnswer' = "apiError" /\ ThrowInLargePath(ErrGenerate)
       \/ /\ lastAnswer' = "text"
          /\ \E text \in GenTexts : Return(parseGeminiResponse(RawResponseText(text)))

\* ---- AssemblyAI adapter ----

\* mutation: an upload answer without upload_url is not rejected
AssemblyUploadKeepsMissingUrl ==
    /\ tpc = "aaiUpload"
    /\ UNCHANGED <<pvars, bvars, mvars, cvars>>
    /\ req' = Issue("aaiUpload")
    /\ UNCHANGED <<settings, env, fileSize, adapter, apiKey, attempt, fileUri>>
    /\ UNCHANGED <<loaded, progress>>
    /\ \E answer \in {"network", "notOk", "noUrl", "url"} :
         /\ lastAnswer' = answer
         /\ CASE answer = "network" -> Throw(ErrFetch)
           [] answer = "notOk" -> Throw(ErrAaiUpload)
           [] OTHER -> Goto("aaiSubmit")

\* the upload request and the check of upload_url
AssemblyUpload ==
    /\ tpc = "aaiUpload"
    /\ UNCHANGED <<pvars, bvars, mvars, cvars>>
    /\ req' = Issue("aaiUpload")
    /\ UNCHANGED <<settings, env, fileSize, adapter, apiKey, attempt, fileUri>>
    /\ UNCHANGED <<loaded, progress>>
    /\ \E answer \in {"network", "notOk", "noUrl", "url"} :
         /\ lastAnswer' = answer
         /\ CASE answer = "network" -> Throw(ErrFetch)
           [] answer = "notOk" -> Throw(ErrAaiUpload)
           [] answer = "noUrl" -> Throw(ErrAaiUploadUrl)
           [] answer = "url" -> Goto("aaiSubmit")

AssemblySubmit ==
    /\ tpc = "aaiSubmit"
    /\ UNCHANGED <<pvars, bvars, mvars, cvars>>
    /\ req' = Issue("aaiSubmit")
    /\ attempt' = 0
    /\ UNCHANGED <<settings, env, fileSize, adapter, apiKey, fileUri>>
    /\ UNCHANGED <<loaded, progress>>
    /\ \E answer \in {"network", "notOk", "noId", "id"} :
         /\ lastAnswer' = answer
         /\ CASE answer = "network" -> Throw(ErrFetch)
           [] answer = "notOk" -> Throw(ErrAaiSubmit)
           [] answer = "noId" -> Throw(ErrAaiId)
           [] answer = "id" ->
                IF AssemblyLoopCond(0) THEN Goto("aaiStatus") ELSE Throw(ErrAaiTimeout)

\* one iteration of the polling loop of transcribeWithAssemblyAI
AssemblyStatus ==
    /\ tpc = "aaiStatus"
    /\ UNCHANGED <<pvars, bvars, mvars, cvars>>
    /\ req' = Issue("aaiStatus")
    /\ UNCHANGED <<settings, env, fileSize, adapter, apiKey, fileUri>>
    /\ UNCHANGED loaded
    /\ \E answer \in {"network", "notOk", "completed", "error", "errorNoText",
                      "queued", "processing"} :
         /\ lastAnswer' = answer
         /\ CASE answer = "network" -> Throw(ErrFetch) /\ UNCHANGED <<attempt, progress>>
           [] answer = "notOk" -> Throw(ErrAaiPoll) /\ UNCHANGED <<attempt, progress>>
           [] answer \notin {"network", "notOk"}
                /\ AssemblyStatusOutcome(AnswerStatus(answer)) = "return" ->
                /\ \E r \in CompletedResults : Return(r)
                /\ UNCHANGED <<attempt, progress>>
           [] answer \notin {"network", "notOk"}
                /\ AssemblyStatusOutcome(AnswerStatus(answer)) = "throw" ->
                /\ Throw(IF answer = "errorNoText" THEN ErrAaiFailed ELSE ErrAaiProvider)
                /\ UNCHANGED <<attempt, progress>>
           [] OTHER ->
                /\ attempt' = attempt + 1
                /\ progress' = AssemblyPercent(attempt + 1)
                /\ IF AssemblyLoopCond(attempt + 1)
                   THEN Goto("aaiStatus")
                   ELSE Throw(ErrAaiTimeout)

TNext ==
    \/ TranscribeAudio
    \/ OpenAIRequest
    \/ GeminiEncode
    \/ GeminiGenerateInline
    \/ GeminiUploadStart
    \/ GeminiUploadProgress
    \/ GeminiUploadBytes
    \/ GeminiFileStatus
    \/ GeminiGenerateFile
    \/ AssemblyUpload
    \/ AssemblySubmit
    \/ AssemblyStatus

----------------------------------------------------------------------------
(* Batch processor *)

MaxItems == 2

\* the provider decides skipConversion and the stage text only, neither of
\* which the steps below depend on: one value stands for all
BatchProviders == {"GEMINI"}
BatchSettings == [provider : BatchProviders, autoDriveUpload : BOOLEAN]

\* DEFAULT_SETTINGS, as far as processNext reads them
DefaultSettings == [provider |-> "GEMINI", autoDriveUpload |-> FALSE]

Item(id) == [id |-> id, status |-> "QUEUED"]

\* mutation: the update is applied to every item
updateItemAll(q, id, status) ==
    [k \in 1..Len(q) |-> [q[k] EXCEPT !.status = status]]

\* prev => prev.map(item => item.id === id ? { ...item, ...updates } : item)
updateItem(q, id, status) ==
    [k \in 1..Len(q) |-> IF q[k].id = id THEN [q[k] EXCEPT !.status = status] ELSE q[k]]

\* mutation: the first item is found, whatever its status
FindFirstItem(q) == IF Len(q) > 0 THEN 1 ELSE 0

\* queue.find(i => i.status === 'QUEUED'): its index, 0 when there is none
FindQueued(q) ==
    IF \E k \in 1..Len(q) : q[k].status = "QUEUED"
    THEN CHOOSE k \in 1..Len(q) :
            /\ q[k].status = "QUEUED"
            /\ \A m \in 1..(k - 1) : q[m].status # "QUEUED"
    ELSE 0

\* mutation: the guard is not consulted
GuardBusyIgnored(ref) == FALSE

\* if (isProcessingRef.current) return;
GuardBusy(ref) == ref

BInit ==
    /\ queue = <<>>
    /\ bsettings = DefaultSettings
    /\ processCounter = 0
    /\ dirty = FALSE
    /\ rendered = [queue |-> <<>>, settings |-> DefaultSettings]
    /\ effectDue = TRUE
    /\ isProcessingRef = FALSE
    /\ jobs = {}
    /\ nextId = 0
    /\ picked = <<>>
    /\ failed = {}

\* the batch processor is not mounted
BOff ==
    /\ queue = <<>>
    /\ bsettings = DefaultSettings
    /\ processCounter = 0
    /\ dirty = FALSE
    /\ rendered = [queue |-> <<>>, settings |-> DefaultSettings]
    /\ effectDue = FALSE
    /\ isProcessingRef = FALSE
    /\ jobs = {}
    /\ nextId = 0
    /\ picked = <<>>
    /\ failed = {}

\* handleFilesSelect(files), ids being fresh
HandleFilesSelect ==
    /\ UNCHANGED <<tvars, pvars, mvars, cvars>>
    /\ \E n \in 1..2 :
         /\ nextId + n <= MaxItems
         /\ queue' = queue \o [k \in 1..n |-> Item(nextId + k)]
         /\ nextId' = nextId + n
    /\ dirty' = TRUE
    /\ UNCHANGED <<bsettings, processCounter, rendered, effectDue, isProcessingRef,
                   jobs, picked, failed>>

\* handleSaveSettings(newSettings)
HandleSaveSettings ==
    /\ UNCHANGED <<tvars, pvars, mvars, cvars>>
    /\ bsettings' \in BatchSettings
    /\ dirty' = TRUE
    /\ UNCHANGED <<queue, processCounter, rendered, effectDue, isProcessingRef,
                   jobs, nextId, picked, failed>>

\* resetQueue, confirmed
ResetQueue ==
    /\ UNCHANGED <<tvars, pvars, mvars, cvars>>
    /\ queue' = <<>>
    /\ dirty' = TRUE
    /\ UNCHANGED <<bsettings, processCounter, rendered, effectDue, isProcessingRef,
                   jobs, nextId, picked, failed>>

\* React renders the component with the pending state updates and commits;
\* the effects of the previous render have run by then
Render ==
    /\ UNCHANGED <<tvars, pvars, mvars, cvars>>
    /\ dirty
    /\ ~effectDue
    /\ rendered' = [queue |-> queue, settings |-> bsettings]
    /\ dirty' = FALSE
    /\ effectDue' = TRUE
    /\ UNCHANGED <<queue, bsettings, processCounter, isProcessingRef, jobs, nextId,
                   picked, failed>>

\* the effect runs processNext, which runs up to its first await
RunEffect ==
    /\ UNCHANGED <<tvars, pvars, mvars, cvars>>
    /\ effectDue
    /\ effectDue' = FALSE
    /\ UNCHANGED <<bsettings, processCounter, rendered, nextId, failed>>
    /\ LET k == FindQueued(rendered.queue) IN
       IF GuardBusy(isProcessingRef) \/ k = 0
       THEN UNCHANGED <<queue, dirty, isProcessingRef, jobs, picked>>
       ELSE /\ isProcessingRef' = TRUE
            /\ queue' = updateItem(queue, rendered.queue[k].id, "PROCESSING")
            /\ dirty' = TRUE
            /\ picked' = Append(picked, rendered.queue[k].id)
            /\ jobs' = jobs \cup {[n |-> Len(picked) + 1,
                                   itemId |-> rendered.queue[k].id,
                                   settings |-> rendered.settings,
                                   pc |-> "processMediaFile"]}

\* catch (error) { updateItem(itemId, ERROR) } finally { ref = false; counter++ }
CatchAndFinally(j) ==
    /\ queue' = updateItem(queue, j.itemId, "ERROR")
    /\ failed' = failed \cup {j.itemId}
    /\ isProcessingRef' = FALSE
    /\ processCounter' = processCounter + 1
    /\ jobs' = jobs \ {j}
    /\ dirty' = TRUE

\* mutation: finally does not release the guard
FinallyKeepsGuard(j) ==
    /\ isProcessingRef' = isProcessingRef
    /\ processCounter' = processCounter + 1
    /\ jobs' = jobs \ {j}
    /\ dirty' = TRUE
    /\ UNCHANGED failed

\* the try block ends; finally { ref = false; counter++ }
Finally(j) ==
    /\ isProcessingRef' = FALSE
    /\ processCounter' = processCounter + 1
    /\ jobs' = jobs \ {j}
    /\ dirty' = TRUE
    /\ UNCHANGED failed

\* processMediaFile settles
ProcessMediaFileSettles ==
    /\ UNCHANGED <<tvars, pvars, mvars, cvars>>
    /\ UNCHANGED <<bsettings, rendered, effectDue, nextId, picked>>
    /\ \E j \in jobs :
         /\ j.pc = "processMediaFile"
         /\ \/ /\ jobs' = (jobs \ {j}) \cup {[j EXCEPT !.pc = "transcribeAudio"]}
               /\ dirty' = TRUE
               /\ UNCHANGED <<queue, isProcessingRef, processCounter, failed>>
            \/ CatchAndFinally(j)

\* transcribeAudio calls onProgress, which calls updateItem with a stage and a progress
TranscribeProgress ==
    /\ UNCHANGED <<tvars, pvars, mvars, cvars>>
    /\ \E j \in jobs : j.pc = "transcribeAudio"
    /\ dirty' = TRUE
    /\ UNCHANGED <<queue, bsettings, processCounter, rendered, effectDue,
                   isProcessingRef, jobs, nextId, picked, failed>>

\* transcribeAudio settles
TranscribeAudioSettles ==
    /\ UNCHANGED <<tvars, pvars, mvars, cvars>>
    /\ UNCHANGED <<bsettings, rendered, effectDue, nextId, picked>>
    /\ \E j \in jobs :
         /\ j.pc = "transcribeAudio"
         /\ \/ /\ j.settings.autoDriveUpload
               /\ queue' = updateItem(queue, j.itemId, "COMPLETED")
               /\ jobs' = (jobs \ {j}) \cup {[j EXCEPT !.pc = "uploadTranscript"]}
               /\ dirty' = TRUE
               /\ UNCHANGED <<isProcessingRef, processCounter, failed>>
            \/ /\ ~j.settings.autoDriveUpload
               /\ queue' = updateItem(queue, j.itemId, "COMPLETED")
               /\ Finally(j)
            \/ CatchAndFinally(j)

\* an uploadToDrive call settles; a failure is caught and logged
DriveUploadSettles ==
    /\ UNCHANGED <<tvars, pvars, mvars, cvars>>
    /\ UNCHANGED <<queue, bsettings, rendered, effectDue, nextId, picked>>
    /\ \E j \in jobs :
         \/ /\ j.pc = "uploadTranscript"
            /\ jobs' = (jobs \ {j}) \cup {[j EXCEPT !.pc = "uploadEvidence"]}
            /\ UNCHANGED <<dirty, isProcessingRef, processCounter, failed>>
         \/ /\ j.pc \in {"uploadTranscript", "uploadEvidence"}
            /\ Finally(j)

BNext ==
    \/ HandleFilesSelect
    \/ HandleSaveSettings
    \/ ResetQueue
    \/ Render
    \/ RunEffect
    \/ ProcessMediaFileSettles
    \/ TranscribeProgress
    \/ TranscribeAudioSettles
    \/ DriveUploadSettles

----------------------------------------------------------------------------
(* Runtime configuration: getRuntimeConfig and resetRuntimeConfigCache.    *)
(* import.meta.env is fixed when the bundle is built; process.env can be   *)
(* changed while the program runs.                                         *)

MaxCalls == 3
MaxEnvChanges == 2

EnvNames == {"GEMINI_API_KEY", "GOOGLE_DRIVE_CLIENT_ID", "GOOGLE_DRIVE_API_KEY",
             "OPENAI_API_KEY", "ASSEMBLYAI_API_KEY"}

\* {}: an environment object without any of the variables
EmptyEnv == [n \in EnvNames |-> Undefined]

\* a ?? b
Coalesce(a, b) == IF a.def THEN a ELSE b

\* readEnv(): metaEnv.X ?? nodeEnv.X for each variable
readEnv(meta, node) == [n \in EnvNames |-> Coalesce(meta[n], node[n])]

\* mutation: GEMINI_API_KEY is a plain z.string(), the empty string passes
RequiredStringAnyLength(v) == v.def

\* z.string().min(1, ...)
RequiredString(v) == v.def /\ Len(v.s) >= 1

\* z.string().optional().default("")
OptionalString(v) == IF v.def THEN v.s ELSE <<>>

\* envSchema.safeParse(e).success
SafeParseSuccess(e) == RequiredString(e["GEMINI_API_KEY"])

\* parsedEnv.data
SafeParseData(e) ==
    [n \in EnvNames |->
        IF n = "GEMINI_API_KEY" THEN e[n].s ELSE OptionalString(e[n])]

\* cachedConfig === null, or the RuntimeConfig object built from parsedEnv.data
NoConfig ==
    [def |-> FALSE, geminiApiKey |-> <<>>, googleDriveClientId |-> <<>>,
     googleDriveApiKey |-> <<>>, openAiApiKey |-> <<>>, assemblyAiApiKey |-> <<>>]
RuntimeConfig(data) ==
    [def |-> TRUE,
     geminiApiKey |-> data["GEMINI_API_KEY"],
     googleDriveClientId |-> data["GOOGLE_DRIVE_CLIENT_ID"],
     googleDriveApiKey |-> data["GOOGLE_DRIVE_API_KEY"],
     openAiApiKey |-> data["OPENAI_API_KEY"],
     assemblyAiApiKey |-> data["ASSEMBLYAI_API_KEY"]]

\* mutation: the cache is never used
CacheHitNever(cached) == FALSE

\* if (cachedConfig)
CacheHit(cached) == cached.def

ErrInvalidEnv ==
    "Invalid environment configuration. Please set required environment variables."

\* the outcome of a call: the object returned or the message thrown
Returned(config) == [kind |-> "returned", config |-> config, message |-> ""]
Threw(message) == [kind |-> "threw", config |-> NoConfig, message |-> message]
NoCall == [kind |-> "none", config |-> NoConfig, message |-> ""]

\* the values given to a variable of process.env
ProcessEnvValues == {Undefined, Str(<<>>), Str(<<"g">>), Str(<<"h">>)}

\* import.meta.env as built: absent or without the variables, or with one
\* of them defined
MetaEnvs ==
    {EmptyEnv,
     [EmptyEnv EXCEPT !["GEMINI_API_KEY"] = Str(<<>>)],
     [EmptyEnv EXCEPT !["GEMINI_API_KEY"] = Str(<<"m">>)],
     [EmptyEnv EXCEPT !["OPENAI_API_KEY"] = Str(<<"o">>)]}

\* process.env at the start: absent or without the variables, with the key
\* only, or as the test suite sets it
NodeEnvs ==
    {EmptyEnv,
     [EmptyEnv EXCEPT !["GEMINI_API_KEY"] = Str(<<"g">>)],
     [EmptyEnv EXCEPT !["GEMINI_API_KEY"] = Str(<<"g">>),
                      !["GOOGLE_DRIVE_CLIENT_ID"] = Str(<<"c">>),
                      !["GOOGLE_DRIVE_API_KEY"] = Str(<<"d">>)]}

ConfigInit ==
    /\ cachedConfig = NoConfig
    /\ metaEnv \in MetaEnvs
    /\ nodeEnv \in NodeEnvs
    /\ lastCall = NoCall
    /\ clog = <<>>
    /\ validations = 0
    /\ envChanges = 0

\* the module is loaded and nothing has been called
ConfigOff ==
    /\ cachedConfig = NoConfig
    /\ metaEnv = EmptyEnv
    /\ nodeEnv = EmptyEnv
    /\ lastCall = NoCall
    /\ clog = <<>>
    /\ validations = 0
    /\ envChanges = 0

\* a call of getRuntimeConfig
GetRuntimeConfig ==
    /\ Len(clog) < MaxCalls
    /\ UNCHANGED <<tvars, pvars, bvars, mvars>>
    /\ UNCHANGED <<metaEnv, nodeEnv, envChanges>>
    /\ IF CacheHit(cachedConfig)
       THEN /\ lastCall' = Returned(cachedConfig)
            /\ UNCHANGED <<cachedConfig, validations>>
       ELSE /\ validations' = validations + 1
            /\ IF ~SafeParseSuccess(readEnv(metaEnv, nodeEnv))
               THEN /\ lastCall' = Threw(ErrInvalidEnv)
                    /\ UNCHANGED cachedConfig
               ELSE /\ cachedConfig' =
                          RuntimeConfig(SafeParseData(readEnv(metaEnv, nodeEnv)))
                    /\ lastCall' = Returned(cachedConfig')
    /\ clog' = Append(clog, [kind |-> lastCall'.kind,
                             validated |-> ~CacheHit(cachedConfig),
                             key |-> readEnv(metaEnv, nodeEnv)["GEMINI_API_KEY"]])

\* a call of resetRuntimeConfigCache
ResetRuntimeConfigCache ==
    /\ cachedConfig' = NoConfig
    /\ UNCHANGED <<tvars, pvars, bvars, mvars>>
    /\ UNCHANGED <<metaEnv, nodeEnv, lastCall, clog, validations, envChanges>>

\* the program, or its test, sets or deletes a variable of process.env
SetProcessEnv ==
    /\ envChanges < MaxEnvChanges
    /\ \E n \in EnvNames, v \in ProcessEnvValues :
          /\ nodeEnv[n] # v
          /\ nodeEnv' = [nodeEnv EXCEPT ![n] = v]
    /\ envChanges' = envChanges + 1
    /\ UNCHANGED <<tvars, pvars, bvars, mvars>>
    /\ UNCHANGED <<cachedConfig, metaEnv, lastCall, clog, validations>>

ConfigNext ==
    \/ GetRuntimeConfig
    \/ ResetRuntimeConfigCache
    \/ SetProcessEnv

----------------------------------------------------------------------------
(* Specifications *)

\* one call of transcribeAudio, for every setting, file size and answer
InitT == TInit /\ ParseOff /\ BOff /\ MapOff /\ ConfigOff
SpecT == InitT /\ [][TNext]_vars

\* parseGeminiResponse on every response text up to MaxTextLen tokens
InitP == TOff /\ ParseInit /\ BOff /\ MapOff /\ ConfigOff
NextP == ParseResponse
SpecP == InitP /\ [][NextP]_vars

\* mapAssemblyResponseToResult on every transcript of MapInputs
InitM == TOff /\ ParseOff /\ BOff /\ MapInit /\ ConfigOff
SpecM == InitM /\ [][MapNext]_vars

\* getRuntimeConfig and resetRuntimeConfigCache called in any order while
\* process.env changes
InitC == TOff /\ ParseOff /\ BOff /\ MapOff /\ ConfigInit
SpecC == InitC /\ [][ConfigNext]_vars

\* the batch processor under every interleaving of user actions, renders,
\* effect runs and settling calls
Init == TOff /\ ParseOff /\ BInit /\ MapOff /\ ConfigOff
Next == BNext
Spec == Init /\ [][Next]_vars

\* the same, with React running due renders and effects and every call settling
FairSpec ==
    /\ Spec
    /\ WF_vars(Render)
    /\ WF_vars(RunEffect)
    /\ WF_vars(ProcessMediaFileSettles)
    /\ WF_vars(TranscribeAudioSettles)
    /\ WF_vars(DriveUploadSettles)

----------------------------------------------------------------------------
(* Properties of one transcribeAudio call (SpecT) *)

ReqTotal == req["gemUploadStart"] + req["gemUploadBytes"] + req["gemFileStatus"]
            + req["gemGenerateInline"] + req["gemGenerateFile"] + req["openai"]
            + req["aaiUpload"] + req["aaiSubmit"] + req["aaiStatus"]

\* C1: the AssemblyAI adapter issues at most AssemblyMaxAttempts (120) status
\* requests; while it polls, every earlier poll was answered "still
\* processing"; and once that many polls were so answered the call has failed
\* with the timed-out error, so that no further status request follows.
C1_AssemblyPollingBounded ==
    adapter = "ASSEMBLYAI" =>
        /\ req["aaiStatus"] <= AssemblyMaxAttempts
        /\ tpc = "aaiStatus" =>
              attempt = req["aaiStatus"] /\ attempt < AssemblyMaxAttempts
        /\ attempt = AssemblyMaxAttempts =>
              /\ tpc = "failed"
              /\ err = ErrAaiTimeout
              /\ req["aaiStatus"] = AssemblyMaxAttempts

C1_Witness ==
    /\ adapter = "ASSEMBLYAI"
    /\ tpc = "failed"
    /\ err = ErrAaiTimeout
    /\ req["aaiStatus"] = AssemblyMaxAttempts
    /\ lastAnswer \in {"queued", "processing"}

\* C2: waitForFileActive issues at most GeminiMaxAttempts (120) status
\* requests and throws the timed-out error when all of them were answered with
\* a state other than ACTIVE and FAILED; it throws the processing-failed error
\* on FAILED; and it returns normally (the generate call is next) only after
\* an ACTIVE answer.
C2_WaitForFileActive ==
    adapter = "GEMINI" =>
        /\ req["gemFileStatus"] <= GeminiMaxAttempts
        /\ attempt = GeminiMaxAttempts => tpc = "failed" /\ raised = ErrFileTimeout
        /\ (tpc = "failed" /\ lastAnswer = "FAILED") => raised = ErrFileFailed
        /\ tpc = "gemGenerateFile" => lastAnswer = "ACTIVE"

\* a credential that is missing, empty or whitespace-only
Blank(v) == ~v.def \/ Trim(v.s) = <<>>

CredentialMissing ==
    CASE settings.provider = "OPENAI" -> Blank(settings.openaiKey)
      [] settings.provider = "ASSEMBLYAI" -> Blank(settings.assemblyAiKey)
      [] OTHER -> Blank(settings.geminiApiKey) /\ Blank(env.vite) /\ Blank(env.process)

MissingKeyErrors ==
    {ErrOpenAIKeyRequired, ErrAssemblyKeyRequired, ErrGeminiKey,
     ErrOpenAIKeyMissing, ErrAssemblyKeyMissing}

\* C5: when the credential of the selected provider is missing, empty or
\* whitespace-only (for Gemini: the settings override and both environment
\* defaults), the call fails with a missing-key error and issues no request.
C5_MissingCredentialFails ==
    (tpc # "call" /\ CredentialMissing) =>
        /\ tpc = "failed"
        /\ err \in MissingKeyErrors
        /\ ReqTotal = 0

\* the adapter the claim expects for a provider value
ExpectedAdapter ==
    IF settings.provider = "OPENAI" THEN "OPENAI"
    ELSE IF settings.provider = "ASSEMBLYAI" THEN "ASSEMBLYAI"
    ELSE "GEMINI"

AdapterRequests(a) ==
    CASE a = "OPENAI" -> req["openai"]
      [] a = "ASSEMBLYAI" -> req["aaiUpload"] + req["aaiSubmit"] + req["aaiStatus"]
      [] a = "GEMINI" -> req["gemUploadStart"] + req["gemUploadBytes"] + req["gemFileStatus"]
                         + req["gemGenerateInline"] + req["gemGenerateFile"]

\* C6: OPENAI invokes only the OpenAI adapter, ASSEMBLYAI only the AssemblyAI
\* adapter, GEMINI and any other provider value only the Gemini adapter: no
\* other adapter is entered, every request issued is one of that adapter's,
\* and a returned result names that adapter in providerUsed.
C6_Dispatch ==
    /\ adapter \in {"NONE", ExpectedAdapter}
    /\ ReqTotal = AdapterRequests(ExpectedAdapter)
    /\ tpc = "done" => adapter = ExpectedAdapter /\ result.providerUsed = ExpectedAdapter

C6_Witness ==
    /\ tpc = "done"
    /\ settings.provider = "WATSON"
    /\ result.providerUsed = "GEMINI"
    /\ req["gemGenerateInline"] = 1

\* C7: a Gemini call on a file of at most LARGE_FILE_THRESHOLD bytes issues no
\* upload-start, byte-upload, file-status or file-reference generate request
\* and exactly one inline generate call when it returns; on a larger file it
\* issues no inline generate call, and its one file-reference generate call
\* comes after an upload-start, a byte-upload and at least one file-status
\* request.
C7_PathSelection ==
    adapter = "GEMINI" =>
        IF fileSize <= 10 * 1024 * 1024
        THEN /\ req["gemUploadStart"] = 0 /\ req["gemUploadBytes"] = 0
             /\ req["gemFileStatus"] = 0 /\ req["gemGenerateFile"] = 0
             /\ req["gemGenerateInline"] <= 1
             /\ tpc = "done" => req["gemGenerateInline"] = 1
        ELSE /\ req["gemGenerateInline"] = 0
             /\ req["gemGenerateFile"] <= 1
             /\ tpc = "done" => req["gemGenerateFile"] = 1
             /\ req["gemGenerateFile"] = 1 =>
                   /\ req["gemUploadStart"] = 1
                   /\ req["gemUploadBytes"] = 1
                   /\ req["gemFileStatus"] >= 1

\* the errors the adapters raise on a network or protocol failure
ProtocolErrors ==
    {ErrFetch, ErrOpenAI, ErrGenerate, ErrUploadStart, ErrUploadParse, ErrUploadStatus,
     ErrUploadNetwork, ErrFileStatus, ErrFileFailed, ErrFileTimeout, ErrAaiUpload,
     ErrAaiUploadUrl, ErrAaiSubmit, ErrAaiId, ErrAaiPoll, ErrAaiProvider, ErrAaiFailed,
     ErrAaiTimeout}

\* C9: a network or protocol error raised inside an adapter reaches the caller
\* of transcribeAudio as that same error, with its message.
C9_ErrorsPropagateUnchanged ==
    (tpc = "failed" /\ raised \in ProtocolErrors) => err = raised

\* C10: on the large-media path the caller never receives, for a polling
\* timeout, the error it receives for the FAILED state or for an upload
\* failure.
C10_TimeoutDistinct ==
    (tpc = "failed" /\ adapter = "GEMINI" /\ raised = ErrFileTimeout) =>
        err \notin {LargeFileCatch(e) :
                      e \in {ErrFileFailed, ErrUploadStart, ErrUploadNetwork,
                             ErrUploadStatus, ErrUploadParse}}

----------------------------------------------------------------------------
(* Properties of parseGeminiResponse (SpecP) *)

\* the cleaned text is a JSON array all of whose elements are segment objects
IsSegmentArray(text) ==
    LET p == JSONParse(CleanText(text)) IN
    /\ p.ok
    /\ p.val.t = "array"
    /\ \A i \in 1..Len(p.val.elems) : p.val.elems[i].t = "segment"

\* C8: parseGeminiResponse returns a result for every text, and when the
\* cleaned text is not a JSON array of segments the result has the raw text
\* as its text, no segments field and providerUsed GEMINI.
C8_ParseDegradesToRawText ==
    ppc = "parsed" =>
        /\ pout.ret
        /\ ~IsSegmentArray(ptext) =>
              /\ pout.text = Txt("raw", ptext)
              /\ ~pout.hasSegments
              /\ pout.providerUsed = "GEMINI"

----------------------------------------------------------------------------
(* Properties of the batch processor (Spec, FairSpec) *)

\* C3: at most one invocation of processNext is between setting
\* isProcessingRef and resetting it, the ref is set exactly while there is
\* one, and so at most one transcribeAudio call is in flight.
C3_OneAtATime ==
    /\ Cardinality(jobs) <= 1
    /\ isProcessingRef <=> jobs # {}
    /\ Cardinality({j \in jobs : j.pc = "transcribeAudio"}) <= 1

\* an effect has re-run, and returned at the guard, while an item was being
\* transcribed and another one was waiting
C3_Witness ==
    /\ \E j \in jobs : j.pc = "transcribeAudio"
    /\ \E k \in 1..Len(rendered.queue) : rendered.queue[k].status = "QUEUED"
    /\ \E k \in 1..Len(rendered.queue) : rendered.queue[k].status = "PROCESSING"
    /\ ~effectDue
    /\ ~dirty

QueueIds(q) == {q[k].id : k \in 1..Len(q)}
PickedIds == {picked[k] : k \in 1..Len(picked)}

\* the step in which the processing of an item fails: the catch block runs
FailureStep == failed' # failed

\* C4 (safety part): in the step in which the processing of item i fails, the
\* queue keeps its items, item i alone becomes ERROR, every other item
\* keeps its status, and the running guard is released.
C4_FailureIsLocal ==
    FailureStep =>
        /\ Len(queue') = Len(queue)
        /\ \A k \in 1..Len(queue) :
              /\ queue'[k].id = queue[k].id
              /\ queue'[k].status =
                    IF queue[k].id \in (failed' \ failed) THEN "ERROR" ELSE queue[k].status
        /\ isProcessingRef' = FALSE

----------------------------------------------------------------------------
(* Polling loops and progress reports of one transcribeAudio call *)

StatusRequests == req["aaiStatus"] + req["gemFileStatus"]

\* the status answers that end a polling loop
ErrorAnswers == {"error", "errorNoText", "FAILED"}
SuccessAnswers == {"completed", "ACTIVE"}

\* after an error answer no request follows
NoRequestAfterError == lastAnswer \in ErrorAnswers => req' = req

\* after a success answer, or a generate call, or the end of the call, no
\* status request follows
NoStatusAfterSuccess ==
    (lastAnswer \in SuccessAnswers \/ req["gemGenerateFile"] > 0
        \/ tpc \in {"done", "failed"})
    => StatusRequests' = StatusRequests

\* a status request other than the first follows a still-processing answer
RepollOnlyWhileProcessing ==
    (StatusRequests' # StatusRequests /\ StatusRequests > 0)
    => lastAnswer \in {"queued", "processing", "PROCESSING"}

\* C11: once a status answer reports "error" (AssemblyAI) or FAILED (Gemini)
\* the call has failed and no request at all follows, in particular no
\* status request and no generate call; once a status answer reports
\* "completed" or ACTIVE, or the call is over, no status request follows;
\* a loop polls again only after a still-processing answer.
C11_NoRepollAfterTerminalAnswer ==
    /\ [](lastAnswer \in ErrorAnswers => tpc = "failed")
    /\ [][NoRequestAfterError]_vars
    /\ [][NoStatusAfterSuccess]_vars
    /\ [][RepollOnlyWhileProcessing]_vars

\* a Gemini file reported FAILED after the loop had polled again at least once
C11_Witness ==
    /\ lastAnswer = "FAILED"
    /\ attempt > 0
    /\ tpc = "failed"
    /\ req["gemGenerateFile"] = 0

\* a step in which onProgress is not given a smaller value than before
ProgressDoesNotDrop == progress' >= progress

\* C12: within one transcribeAudio call the values passed to onProgress
\* never decrease, for every provider and every sequence of upload progress
\* events whose loaded byte count does not decrease.
C12_ProgressMonotonic == [][ProgressDoesNotDrop]_vars

\* C13: AssemblyAI adapter: every value passed to onProgress is at least 30
\* and at most 99, and 100 is never reported before the job has completed.
C13_AssemblyProgressRange ==
    (adapter = "ASSEMBLYAI" /\ progress # NoProgress)
        => (progress >= 30 /\ progress <= 99)

----------------------------------------------------------------------------
(* mapAssemblyResponseToResult *)

NonEmptyList(l) == l.def /\ l.s # <<>>

\* the token a word contributes: punctuated_word when it is not blank, the
\* raw word text otherwise, without surrounding white space
ExpectedToken(w) ==
    IF w.punctuated_word.def /\ Trim(w.punctuated_word.s) # <<>>
    THEN Trim(w.punctuated_word.s)
    ELSE Trim(w.text)

\* the indices, in order, of the words of ws that are not blank
RECURSIVE NonBlankFrom(_, _)
NonBlankFrom(ws, i) ==
    IF i > Len(ws) THEN <<>>
    ELSE IF ExpectedToken(ws[i]) = <<>> THEN NonBlankFrom(ws, i + 1)
    ELSE <<i>> \o NonBlankFrom(ws, i + 1)

\* the maximal runs of equal labels among the words at idxs: for each run
\* its first and last word, its label and its tokens
RECURSIVE RunsOf(_, _, _)
RunsOf(idxs, ws, labels) ==
    IF idxs = <<>> THEN <<>>
    ELSE LET i == Head(idxs)
             rest == RunsOf(Tail(idxs), ws, labels)
         IN IF rest # <<>> /\ rest[1].label = labels[i]
            THEN <<[rest[1] EXCEPT !.first = i,
                                   !.tokens = <<ExpectedToken(ws[i])>> \o @]>>
                 \o Tail(rest)
            ELSE <<[first |-> i, last |-> i, label |-> labels[i],
                    tokens |-> <<ExpectedToken(ws[i])>>]>> \o rest

\* tokens joined by single spaces
RECURSIVE JoinTokens(_)
JoinTokens(tokens) ==
    IF tokens = <<>> THEN <<>>
    ELSE IF Len(tokens) = 1 THEN tokens[1]
    ELSE tokens[1] \o <<" ">> \o JoinTokens(Tail(tokens))

\* the runs of the words mapped so far, given the labels resolved for them
WordRuns == RunsOf(NonBlankFrom(SubSeq(transcript.words.s, 1, Len(wlog)), 1),
                   transcript.words.s, wlog)

\* one segment per run
ExpectedWordSegments ==
    [r \in 1..Len(WordRuns) |->
        Segment(MsToSeconds(transcript.words.s[WordRuns[r].first].start),
                MsToSeconds(transcript.words.s[WordRuns[r].last].end),
                WordRuns[r].label,
                JoinTokens(WordRuns[r].tokens))]

\* the flat text is the placeholder, whatever the case of its letters
IsPlaceholderFlatText(text) ==
    text.def /\ ToLowerCase(Trim(text.s)) = PlaceholderText

\* the flat text, or the empty string in its place when it is missing or
\* the placeholder
FlatTextOrEmpty(text) ==
    IF ~text.def \/ IsPlaceholderFlatText(text) THEN <<>> ELSE text.s

\* the segments of the result are built from the utterances, one each
SegmentsFromUtterancesOnly ==
    /\ mout.hasSegments
    /\ Len(mout.segments) = Len(transcript.utterances.s)
    /\ \A k \in 1..Len(mout.segments) :
          /\ mout.segments[k].text = transcript.utterances.s[k].text
          /\ mout.segments[k].start.num = transcript.utterances.s[k].start
          /\ mout.segments[k].end.num = transcript.utterances.s[k].end

\* the segments of the result are built from the words
SegmentsFromWordsOnly ==
    /\ mout.segments = ExpectedWordSegments
    /\ mout.hasSegments <=> ExpectedWordSegments # <<>>

\* C14 as stated: with both lists missing or empty the text is the
\* provider's flat text.
C14_SourceSelectionAsStated ==
    mpc = "done" =>
        /\ NonEmptyList(transcript.utterances) => SegmentsFromUtterancesOnly
        /\ ~NonEmptyList(transcript.utterances) => SegmentsFromWordsOnly
        /\ (~NonEmptyList(transcript.utterances) /\ ~NonEmptyList(transcript.words))
              => (~mout.hasSegments /\ mout.text.def
                  /\ mout.text.body = transcript.text.s)

\* C14 (amended): a non-empty utterances list gives one segment per
\* utterance and the words are ignored; with utterances missing or empty
\* the segments are built from the words; with both missing or empty
\* segments is absent and text is the provider's flat text, or the empty
\* string when the flat text is missing or is the placeholder.
C14_SourceSelection ==
    mpc = "done" =>
        /\ NonEmptyList(transcript.utterances) => SegmentsFromUtterancesOnly
        /\ ~NonEmptyList(transcript.utterances) => SegmentsFromWordsOnly
        /\ (~NonEmptyList(transcript.utterances) /\ ~NonEmptyList(transcript.words))
              => (~mout.hasSegments /\ mout.text.def
                  /\ mout.text.body = FlatTextOrEmpty(transcript.text))

\* two utterances and a word list: the result has the two utterances'
\* segments
C14_Witness ==
    /\ mpc = "done"
    /\ NonEmptyList(transcript.words)
    /\ transcript.utterances.def
    /\ Len(transcript.utterances.s) = 2
    /\ SegmentsFromUtterancesOnly
    /\ wlog = <<>>

EqualsPlaceholderIgnoringCase(text) ==
    text.def /\ ToLowerCase(text.s) = PlaceholderText

\* neither the utterances nor the words yield a segment
NoSegmentContent ==
    /\ ~NonEmptyList(transcript.utterances)
    /\ \/ ~NonEmptyList(transcript.words)
       \/ \A i \in 1..Len(transcript.words.s) :
             ExpectedToken(transcript.words.s[i]) = <<>>

\* C16: when the provider's flat text equals the placeholder string,
\* compared case-insensitively, and no segments can be built from
\* utterances or words, result.text is the empty string and segments is
\* absent.
C16_PlaceholderSuppressed ==
    (mpc = "done" /\ EqualsPlaceholderIgnoringCase(transcript.text)
        /\ NoSegmentContent)
        => (mout.text = Txt("chars", <<>>) /\ ~mout.hasSegments)

\* the placeholder in the test suite's spelling, with a word list that
\* holds a blank word only
C16_Witness ==
    /\ mpc = "done"
    /\ transcript.text = Str(PlaceholderMixedCase)
    /\ transcript.words = Str(<<BlankWord>>)
    /\ NoSegmentContent
    /\ mout.text = Txt("chars", <<>>)

----------------------------------------------------------------------------
(* mapWordsToSegments *)

\* the word carries no speaker value
NoSpeakerValue(w) == ~w.speaker.def \/ Trim(w.speaker.s) = <<>>

\* the segments come from the word list
WordsMapped == mpc \in {"resolve", "done"} /\ wordIdx > 0

\* C17: for every word list whose first word has no speaker value, the
\* first segment produced is labeled "Speaker 1"; a word with an explicit
\* speaker value v is labeled "Speaker v".
C17_WordSpeakerLabels ==
    WordsMapped =>
        /\ (NoSpeakerValue(transcript.words.s[1]) /\ msegs.s # <<>>)
              => msegs.s[1].speaker = SpeakerPrefix \o <<"1">>
        /\ \A i \in 1..Len(transcript.words.s) :
              ~NoSpeakerValue(transcript.words.s[i])
                 => wlog[i] = SpeakerPrefix \o transcript.words.s[i].speaker.s

\* the iteration for a word without speaker value while a segment is open
InheritingStep ==
    /\ mpc = "words"
    /\ wordIdx' = wordIdx + 1
    /\ NoSpeakerValue(transcript.words.s[wordIdx])
    /\ wstate.current.def

\* the word takes the open segment's label and its token is appended to
\* that segment's text (a blank word has an empty token): no segment is
\* closed or opened and no fallback number is used
InheritsOpenSegment ==
    LET w == transcript.words.s[wordIdx]
        before == wstate.current.seg
        after == wstate'.current.seg
    IN /\ wlog'[wordIdx] = before.speaker
       /\ wstate'.segments = wstate.segments
       /\ wstate'.fallbackSpeakerIndex = wstate.fallbackSpeakerIndex
       /\ wstate'.current.def
       /\ after.speaker = before.speaker
       /\ after.start = before.start
       /\ after.text = Trim(before.text \o <<" ">> \o ExpectedToken(w))
       /\ ExpectedToken(w) # <<>> => after.end = MsToSeconds(w.end)

InheritingStepInherits == InheritingStep => InheritsOpenSegment

\* C18: a word with no speaker value that follows a word already placed in
\* a segment takes that segment's speaker label and is appended to that
\* segment; it never opens a new segment and never consumes a new fallback
\* speaker number.
C18_UnlabeledWordInherits == [][InheritingStepInherits]_vars

\* a word without speaker value has been appended to the segment that the
\* word before it, of speaker 2, had opened
C18_Witness ==
    /\ mpc = "words"
    /\ Len(wlog) = 2
    /\ transcript.words.s[1].speaker = Str(<<"2">>)
    /\ ~transcript.words.s[2].speaker.def
    /\ wstate.segments = <<>>
    /\ wstate.fallbackSpeakerIndex = 1
    /\ wstate.current.def
    /\ wstate.current.seg.speaker = SpeakerPrefix \o <<"2">>
    /\ wstate.current.seg.text = <<"a", " ", "b", ".">>
    /\ wstate.current.seg.start = MsToSeconds(0)
    /\ wstate.current.seg.end = MsToSeconds(2400)

----------------------------------------------------------------------------
(* Unit conversion *)

Abs(x) == IF x < 0 THEN 0 - x ELSE x

\* Does x * c, evaluated in binary64, equal the whole number m?  For x the
\* quotient of x.num by c: the exact product is x.num - x.err / 2^x.scale,
\* and it is rounded to x.num when the error is at most half the distance
\* between x.num and the next binary64 number on that side.
JsProductIs(x, c, m) ==
    \/ x.num = 0 /\ m = 0
    \/ /\ x.num > 0
       /\ c = x.den
       /\ m = x.num
       /\ LET e == Exponent(m, 1)
              slack == (e + x.scale) - 53
          IN Abs(x.err) <= IF 2^e = m /\ x.err > 0 THEN 2^(slack - 1) ELSE 2^slack

\* the millisecond start and end that each segment of the result stems from
SourceTimes ==
    IF NonEmptyList(transcript.utterances)
    THEN [k \in 1..Len(transcript.utterances.s) |->
            [start |-> transcript.utterances.s[k].start,
             end |-> transcript.utterances.s[k].end]]
    ELSE [r \in 1..Len(WordRuns) |->
            [start |-> transcript.words.s[WordRuns[r].first].start,
             end |-> transcript.words.s[WordRuns[r].last].end]]

\* x is the binary64 number nearest to ms / 1000: a 53-bit significand
\* scaled by 2^x.scale, at most half a unit away from the quotient
IsQuotientBy1000(x, ms) ==
    /\ x.num = ms
    /\ x.den = 1000
    /\ 2 * Abs(x.err) <= 1000
    /\ ms > 0 => x.scale = 52 - Exponent(ms, 1000)

----------------------------------------------------------------------------
(* Order of the segments *)

\* x <= y on two quotients by the same divisor.  Each is its num / den less
\* an error below 2^-(scale + 1), and scale is at least 51 for the times
\* mapped (0 has no error), so two different whole dividends, 1 / den apart
\* at least, order the quotients, and equal dividends give the same number.
JsLessOrEqual(x, y) == x.den = y.den /\ x.num <= y.num

\* the items' start times never decrease along the list
OrderedByStart(items) ==
    \A i \in 1..(Len(items) - 1) : items[i].start <= items[i + 1].start

\* the segments' start times never decrease along the list
SegmentsOrderedByStart(segments) ==
    \A i \in 1..(Len(segments) - 1) :
        JsLessOrEqual(segments[i].start, segments[i + 1].start)

\* C21: mapAssemblyResponseToResult keeps source order: segment i is derived
\* from utterance i, so when the utterance list is ordered by start,
\* segments[i].start <= segments[i+1].start for every i; the same holds for
\* segments coalesced from a word list ordered by start.
C21_SourceOrderKept ==
    (mpc = "done" /\ mout.hasSegments) =>
        /\ NonEmptyList(transcript.utterances) =>
              /\ Len(mout.segments) = Len(transcript.utterances.s)
              /\ \A i \in 1..Len(mout.segments) :
                    mout.segments[i].start =
                        MsToSeconds(transcript.utterances.s[i].start)
              /\ OrderedByStart(transcript.utterances.s)
                    => SegmentsOrderedByStart(mout.segments)
        /\ (~NonEmptyList(transcript.utterances)
               /\ OrderedByStart(transcript.words.s))
              => SegmentsOrderedByStart(mout.segments)

\* two utterances that start at 0 ms and at 1200 ms have become two
\* segments that start at 0 s and at 1.2 s
C21_Witness ==
    /\ mpc = "done"
    /\ NonEmptyList(transcript.utterances)
    /\ Len(mout.segments) = 2
    /\ transcript.utterances.s[1].start = 0
    /\ transcript.utterances.s[2].start = 1200
    /\ mout.segments[1].start = MsToSeconds(0)
    /\ mout.segments[2].start = MsToSeconds(1200)
    /\ ~JsLessOrEqual(mout.segments[2].start, mout.segments[1].start)

----------------------------------------------------------------------------
(* The fields of the result returned *)

\* C22: every TranscriptionResult returned by transcribeAudio, for any
\* provider and any successful provider response, has a text field that is
\* a defined, non-null string.
C22_TextAlwaysDefined ==
    (tpc = "done") => (result.ret /\ result.text.def)

\* C23: in every TranscriptionResult returned by an adapter, segments is
\* either absent or a non-empty list; a provider response that yields no
\* speaker/timing data (no utterances, no usable words, or an empty JSON
\* array from Gemini) gives a result without a segments field.
C23_SegmentsAbsentOrNonEmpty ==
    (tpc = "done" /\ result.hasSegments) => result.segments # <<>>

----------------------------------------------------------------------------
(* Properties of getRuntimeConfig (SpecC) *)

\* the step is a call of getRuntimeConfig
IsConfigCall == Len(clog') = Len(clog) + 1

\* GEMINI_API_KEY as readEnv finds it
EffectiveGeminiKey == readEnv(metaEnv, nodeEnv)["GEMINI_API_KEY"]

\* GEMINI_API_KEY is missing from the environment, or empty
GeminiKeyMissingOrEmpty == ~EffectiveGeminiKey.def \/ EffectiveGeminiKey.s = <<>>

\* the value of a variable as readEnv finds it, "" when it is missing
EnvOrEmpty(n) ==
    IF readEnv(metaEnv, nodeEnv)[n].def THEN readEnv(metaEnv, nodeEnv)[n].s ELSE <<>>

\* the configuration that the environment in force describes
ConfigOfEnvironment ==
    [def |-> TRUE,
     geminiApiKey |-> EffectiveGeminiKey.s,
     googleDriveClientId |-> EnvOrEmpty("GOOGLE_DRIVE_CLIENT_ID"),
     googleDriveApiKey |-> EnvOrEmpty("GOOGLE_DRIVE_API_KEY"),
     openAiApiKey |-> EnvOrEmpty("OPENAI_API_KEY"),
     assemblyAiApiKey |-> EnvOrEmpty("ASSEMBLYAI_API_KEY")]

\* a call without the key and without a cached configuration throws and
\* caches nothing
FailedCallCachesNothing ==
    (IsConfigCall /\ GeminiKeyMissingOrEmpty /\ ~cachedConfig.def)
        => /\ lastCall'.kind = "threw"
           /\ lastCall'.message = ErrInvalidEnv
           /\ cachedConfig' = NoConfig

\* a call that follows a failed call, made with the key set, returns the
\* configuration of the environment then in force
CallAfterFailureSucceeds ==
    (IsConfigCall /\ lastCall.kind = "threw" /\ ~GeminiKeyMissingOrEmpty)
        => /\ lastCall'.kind = "returned"
           /\ lastCall'.config = ConfigOfEnvironment
           /\ cachedConfig' = ConfigOfEnvironment

MissingKeyStep == FailedCallCachesNothing /\ CallAfterFailureSucceeds

CachedCallReturnsCache ==
    (IsConfigCall /\ cachedConfig.def)
        => /\ lastCall' = Returned(cachedConfig)
           /\ cachedConfig' = cachedConfig
           /\ validations' = validations

\* the step is a call of resetRuntimeConfigCache
IsCacheReset == cachedConfig' = NoConfig /\ clog' = clog /\ nodeEnv' = nodeEnv

\* a cached configuration stays as it is until the cache is reset
CacheKeptUntilReset ==
    (cachedConfig.def /\ cachedConfig' # cachedConfig) => IsCacheReset

\* a call made while nothing is cached, as after a reset, validates the
\* environment in force: it throws, or it returns that environment's
\* configuration
UncachedCallValidates ==
    (IsConfigCall /\ ~cachedConfig.def)
        => /\ validations' = validations + 1
           /\ IF GeminiKeyMissingOrEmpty
              THEN lastCall'.kind = "threw"
              ELSE lastCall' = Returned(ConfigOfEnvironment)

CachingStep ==
    CachedCallReturnsCache /\ CacheKeptUntilReset /\ UncachedCallValidates

\* C30: after one successful call of getRuntimeConfig, every later call
\* returns the same cached configuration without re-validating the
\* environment, even if environment variables changed or were removed, until
\* resetRuntimeConfigCache is called; the first call after a reset reads and
\* validates the environment again.
C30_CachedUntilReset == [][CachingStep]_vars

\* a first call cached the key g; with the key changed to h a second call
\* returned g without validating; after a reset a third call validated and
\* returned h
C30_Witness ==
    /\ Len(clog) = 3
    /\ clog[1] = [kind |-> "returned", validated |-> TRUE, key |-> Str(<<"g">>)]
    /\ clog[2] = [kind |-> "returned", validated |-> FALSE, key |-> Str(<<"h">>)]
    /\ clog[3] = [kind |-> "returned", validated |-> TRUE, key |-> Str(<<"h">>)]
    /\ validations = 2
    /\ lastCall.config.geminiApiKey = <<"h">>

----------------------------------------------------------------------------
(* Order and number of the requests of one transcribeAudio call *)

\* the step issues a request of the given kind
Issues(kind) == req'[kind] = req[kind] + 1

\* the answers of the upload and submit endpoints that fail the call
AssemblyPhaseFailures == {"network", "notOk", "noUrl", "noId"}

\* submit follows an upload answered with an upload_url
SubmitFollowsUploadUrl ==
    Issues("aaiSubmit")
        => /\ lastAnswer = "url"
           /\ req["aaiUpload"] = 1
           /\ req["aaiSubmit"] = 0
           /\ req["aaiStatus"] = 0

\* a status request follows a submit answered with an id, at once or after
\* status answers that asked to wait
StatusFollowsSubmitId ==
    Issues("aaiStatus")
        => /\ req["aaiUpload"] = 1
           /\ req["aaiSubmit"] = 1
           /\ IF req["aaiStatus"] = 0
              THEN lastAnswer = "id"
              ELSE lastAnswer \in {"queued", "processing"}

\* after a failed upload or submit no request is issued
NoRequestAfterPhaseFailure ==
    (adapter = "ASSEMBLYAI" /\ lastAnswer \in AssemblyPhaseFailures) => req' = req

AssemblyPhaseStep ==
    SubmitFollowsUploadUrl /\ StatusFollowsSubmitId /\ NoRequestAfterPhaseFailure

\* C25: AssemblyAI adapter phase ordering: the submit request is issued only
\* after the upload request returned OK with a non-empty upload_url, and a
\* status request is issued only after the submit request returned OK with a
\* non-empty id; when the upload or the submit fails or lacks that field, no
\* request of a later phase is issued.
C25_AssemblyPhaseOrder == [][AssemblyPhaseStep]_vars

\* upload, submit and two status requests have been issued in that order and
\* the call has returned
C25_Witness ==
    /\ tpc = "done"
    /\ adapter = "ASSEMBLYAI"
    /\ req["aaiUpload"] = 1
    /\ req["aaiSubmit"] = 1
    /\ req["aaiStatus"] = 2
    /\ lastAnswer = "completed"

\* the kinds of request other than the two status polls
NonPollKinds == ReqKinds \ {"gemFileStatus", "aaiStatus"}

\* the answers whose HTTP status is not OK
NotOkAnswers == {"notOk", "notOkUrl"}

\* after an answer that is not OK no request is issued
NoRequestAfterNotOk == lastAnswer \in NotOkAnswers => req' = req

\* C26: no HTTP retry: within one transcribeAudio call every request other
\* than a status poll (upload start, byte upload, AssemblyAI upload, submit,
\* generate, OpenAI transcription) is issued at most once, and a non-OK
\* response to any request, a status poll included, fails the call without
\* that request being issued again.
C26_NoHttpRetry ==
    /\ [](\A k \in NonPollKinds : req[k] <= 1)
    /\ [](lastAnswer \in NotOkAnswers => tpc = "failed")
    /\ [][NoRequestAfterNotOk]_vars

\* the generate call of the large-file path follows an ACTIVE status answer
GenerateFollowsActive == Issues("gemGenerateFile") => lastAnswer = "ACTIVE"

\* C27: Gemini large-media path: the generate call referencing the uploaded
\* file is issued only after a file-status response for that file reported
\* state ACTIVE; for every file URI returned by the upload, no generate call
\* happens without a preceding ACTIVE status.
C27_GenerateOnlyAfterActive == [][GenerateFollowsActive]_vars

----------------------------------------------------------------------------
(* Each item is processed once, and to the end *)

\* the step in which processNext selects an item and starts to process it
PickStep == Len(picked') = Len(picked) + 1

\* the item selected has not been selected before and, if it is still in
\* the queue, is QUEUED there
PickStepPicksQueuedItem ==
    PickStep =>
        LET id == picked'[Len(picked')] IN
        /\ id \notin PickedIds
        /\ \A k \in 1..Len(queue) : queue[k].id = id => queue[k].status = "QUEUED"

\* no id occurs twice among the items selected
PickedOnce ==
    \A a, b \in 1..Len(picked) : picked[a] = picked[b] => a = b

\* C28: each queued item is handed to transcribeAudio at most once; after an
\* item has left the QUEUED status it is never selected for processing
\* again, under any interleaving of effect re-runs triggered by queue,
\* settings or processCounter changes.
C28_ProcessedAtMostOnce ==
    /\ []PickedOnce
    /\ [][PickStepPicksQueuedItem]_vars

\* two items have been processed to the end, one after the other, and the
\* effect has run again since without selecting anything
C28_Witness ==
    /\ Len(picked) = 2
    /\ Len(queue) = 2
    /\ \A k \in 1..2 : queue[k].status = "COMPLETED" /\ queue[k].id = picked[k]
    /\ processCounter = 2
    /\ jobs = {}
    /\ rendered.queue = queue
    /\ ~dirty
    /\ ~effectDue

\* the status of the item with the given id, "none" when the queue has none
StatusOf(q, id) ==
    IF \E k \in 1..Len(q) : q[k].id = id
    THEN q[CHOOSE k \in 1..Len(q) : q[k].id = id].status
    ELSE "none"

TerminalStatuses == {"COMPLETED", "ERROR"}

\* an item that is COMPLETED or ERROR keeps that status while it is in the
\* queue
TerminalStatusKept ==
    \A i \in 1..MaxItems :
        StatusOf(queue, i) \in TerminalStatuses
            => StatusOf(queue', i) \in {StatusOf(queue, i), "none"}

\* C29: provided every processMediaFile, transcribeAudio and Drive upload
\* call eventually settles and the queue is not cleared, every item added to
\* the queue eventually reaches status COMPLETED or ERROR, and an item that
\* reached COMPLETED or ERROR never changes status afterwards.
C29_EveryItemSettles ==
    /\ \A i \in 1..MaxItems :
          (StatusOf(queue, i) # "none")
             ~> (StatusOf(queue, i) \in TerminalStatuses \cup {"none"})
    /\ [][TerminalStatusKept]_vars

\* of two items added the first has been transcribed and saved to Drive, the
\* second has failed, and nothing is left to process
C29_Witness ==
    /\ Len(queue) = 2
    /\ queue[1].status = "COMPLETED"
    /\ queue[2].status = "ERROR"
    /\ picked = <<queue[1].id, queue[2].id>>
    /\ failed = {queue[2].id}
    /\ jobs = {}
    /\ ~isProcessingRef
    /\ bsettings.autoDriveUpload

====
